---- MODULE Spec2Model ----
(***************************************************************************)
(* Model of scripts/oe-go-mod-fetcher.py: the module resolution driver     *)
(* (_execute), the metadata resolver (resolve_module_metadata), the remote *)
(* ref resolver (git_ls_remote), the commit verifier                       *)
(* (verify_commit_accessible, _find_fallback_commit) and recipe generation *)
(* (generate_recipe, load_discovered_modules).                             *)
(*                                                                         *)
(* Values.  A commit hash is a sequence of one-character strings; a ref is *)
(* the sequence of its slash-separated components ("refs/tags/v1" is       *)
(* <<"refs","tags","v1">>); a module path is the sequence of its           *)
(* components; a version is a record of the parts parse_pseudo_version_tag *)
(* separates.  Python's None and the empty string are both the empty       *)
(* sequence (hashes, refs, paths) or "" (names): the code tests them by    *)
(* truthiness.  An instant is a natural number; NoTs is the empty          *)
(* timestamp string and Epoch is 1970-01-01T00:00:00Z.                     *)
(***************************************************************************)
EXTENDS Integers, Sequences, FiniteSets, TLC

\* ----------------------------------------------------------------------
\* Bounds of the model
\* ----------------------------------------------------------------------
MaxJobs == 2

MaxListLen == 2

\* lines of go.sum in a whole run
MaxSumLen == 1

\* ----------------------------------------------------------------------
\* Program constants
\* ----------------------------------------------------------------------
FullHashLen == 40

ShortHashLen == 12

MinShortLen == 6

\* the sequential loop saves the verification cache every 50 modules
SavePeriod == 50

\* ----------------------------------------------------------------------
\* Hashes
\* ----------------------------------------------------------------------
HexLower == {"0", "1", "2", "3", "4", "5", "6", "7", "8", "9", "a", "b", "c", "d", "e", "f"}

HexUpper == {"A", "B", "C", "D", "E", "F"}

NoHash == << >>

Rep(c, n) == [i \in 1..n |-> c]

CA == Rep("a", 40)

CB == Rep("b", 40)

CC == Rep("c", 40)

\* object hash of an annotated tag (never a commit)
TD == Rep("d", 40)

\* s.startswith(p)
StartsWith(s, p) == Len(p) <= Len(s) /\ SubSeq(s, 1, Len(p)) = p

\* h[:n]
Prefix(h, n) == SubSeq(h, 1, IF n < Len(h) THEN n ELSE Len(h))

SA == Prefix(CA, 12)

\* re.fullmatch(r'[0-9a-f]{40}', h)
IsFullHash(h) == Len(h) = FullHashLen /\ \A i \in 1..Len(h) : h[i] \in HexLower

\* re.fullmatch(r'[0-9a-fA-F]{6,40}', s)
IsShortCommit(s) ==
    /\ Len(s) >= MinShortLen
    /\ Len(s) <= FullHashLen
    /\ \A i \in 1..Len(s) : s[i] \in (HexLower \cup HexUpper)

\* ----------------------------------------------------------------------
\* Instants
\* ----------------------------------------------------------------------
NoTs == 0 - 1

Epoch == 0

\* committer date of the commits of the model
Date(c) == IF c = CA THEN 1 ELSE IF c = CB THEN 2 ELSE IF c = CC THEN 3 ELSE 0

\* ----------------------------------------------------------------------
\* Versions
\* ----------------------------------------------------------------------
\* a tagged version: vX.Y.Z
TagVersion(name) == [name |-> name, ts |-> NoTs, short |-> NoHash]

\* a pseudo-version: vX.Y.Z-<14 digit timestamp>-<short commit>
PseudoVersion(name, ts, short) == [name |-> name, ts |-> ts, short |-> short]

\* (timestamp, short_commit) of a pseudo-version, << >> for None
parse_pseudo_version_tag(tag) ==
    IF tag.ts = NoTs \/ tag.ts < 0 THEN << >>
    ELSE IF ~IsShortCommit(tag.short) THEN << >>
    ELSE <<tag.ts, tag.short>>

derive_timestamp_from_version(version) ==
    LET parsed == parse_pseudo_version_tag(version)
    IN IF parsed # << >> THEN parsed[1] ELSE Epoch

\* ----------------------------------------------------------------------
\* Refs
\* ----------------------------------------------------------------------
NoRef == << >>

TagRef(tag) == <<"refs", "tags", tag>>

HeadRef(b) == <<"refs", "heads", b>>

\* ref.startswith("refs/tags/")
IsTagRef(r) == Len(r) >= 3 /\ r[1] = "refs" /\ r[2] = "tags"

\* ref.startswith("refs/heads/")
IsHeadRef(r) == Len(r) >= 3 /\ r[1] = "refs" /\ r[2] = "heads"

\* ref.startswith("refs/")
IsRefsRef(r) == Len(r) >= 2 /\ r[1] = "refs"

\* f"{ref}^{{}}"
Peel(r) == Append(r, "^{}")

IsPeeled(r) == Len(r) >= 1 /\ r[Len(r)] = "^{}"

\* ----------------------------------------------------------------------
\* Small helpers on functions used as Python dicts
\* ----------------------------------------------------------------------
DictSet(d, k, v) == [x \in DOMAIN d \cup {k} |-> IF x = k THEN v ELSE d[x]]

DictPop(d, k) == [x \in DOMAIN d \ {k} |-> d[x]]

DictGet(d, k, dflt) == IF k \in DOMAIN d THEN d[k] ELSE dflt

EmptyDict == [x \in {} |-> 0]

SeqToSet(s) == {s[i] : i \in 1..Len(s)}

\* ----------------------------------------------------------------------
\* URLs and module paths
\* ----------------------------------------------------------------------
NoUrl == ""

U1 == "https://github.com/a/b"

U2 == "https://github.com/k3s-io/etcd"

\* what "https://" + the first three components of a vanity path gives
U3 == "https://example.com/k3s/etcd"

U4 == "https://github.com/c/d"

Urls == {U1, U2, U3, U4}

\* url.rstrip('/') + '.git'
DotGit(url) ==
    CASE url = U1 -> "https://github.com/a/b.git"
      [] url = U2 -> "https://github.com/k3s-io/etcd.git"
      [] url = U3 -> "https://example.com/k3s/etcd.git"
      [] url = U4 -> "https://github.com/c/d.git"
      [] OTHER -> url

\* url.endswith('.git')
EndsWithDotGit(url) == \E u \in Urls : url = DotGit(u)

\* _normalize_url: a trailing ".git" is dropped
_normalize_url(url) == IF EndsWithDotGit(url) THEN CHOOSE u \in Urls : url = DotGit(u) ELSE url

\* vcs_url.rstrip('/').split('/')[-1]
RepoName(url) ==
    CASE _normalize_url(url) = U1 -> "b"
      [] _normalize_url(url) \in {U2, U3} -> "etcd"
      [] OTHER -> "d"

Pab == <<"github.com", "a", "b">>

Pabc == <<"github.com", "a", "b", "c">>

Pcd == <<"github.com", "c", "d">>

Pold == <<"github.com", "x", "old">>

\* a module of upstream etcd that go.mod replaces by a fork under a vanity domain
Petcd == <<"go.etcd.io", "etcd", "server", "v3">>

Pvan == <<"example.com", "k3s", "etcd", "server", "v3">>

Pvanbase == <<"example.com", "k3s", "etcd">>

\* a gopkg.in path with an owner: gopkg.in/a/b.v1
Pgopkg == <<"gopkg.in", "a", "b.v1">>

\* a module path of two components: example.com/etcd
Pshort == <<"example.com", "etcd">>

\* f"https://{base_repo}" for the first three components of a module path
BaseUrl(base_repo) ==
    CASE base_repo = Pab -> U1
      [] base_repo = <<"github.com", "k3s-io", "etcd">> -> U2
      [] base_repo = Pvanbase -> U3
      [] base_repo = Pcd -> U4
      [] OTHER -> NoUrl

\* ----------------------------------------------------------------------
\* The upstream repositories (the environment).  A world gives, for one
\* repository: the commits the server hands out by hash, its tags
\* (obj is what the ref points at, peeled the commit; they differ for an
\* annotated tag), its branches (history, oldest commit first) and the
\* branch HEAD is a symref of.
\* ----------------------------------------------------------------------
BranchOrder == <<"dev", "main", "master">>

World(commits, tags, branches, head) ==
    [commits |-> commits, tags |-> tags, branches |-> branches, head |-> head]

Light(c) == [obj |-> c, peeled |-> c]

Annotated(t, c) == [obj |-> t, peeled |-> c]

NoTags == [x \in {} |-> Light(NoHash)]

\* v1 -> CA on main = CA, CB
WNormal == World({CA, CB}, [t \in {"v1"} |-> Light(CA)], [b \in {"main"} |-> <<CA, CB>>], "main")

\* tag v1 force-pushed from CA to CB, CA no longer on the server
WMoved == World({CB, CC}, [t \in {"v1"} |-> Light(CB)], [b \in {"main"} |-> <<CB, CC>>], "main")

\* tag v1 force-pushed from CA to CB, CA still fetchable but on no branch
WDangling == World({CA, CB, CC}, [t \in {"v1"} |-> Light(CB)], [b \in {"main"} |-> <<CB, CC>>], "main")

\* history rewritten: only CC is left, no tags
WLate == World({CC}, NoTags, [b \in {"main"} |-> <<CC>>], "main")

\* CB orphaned; default branch master holds CA and CC, dev holds CA
WMaster == World({CA, CC}, NoTags, [b \in {"dev", "master"} |-> IF b = "dev" THEN <<CA>> ELSE <<CA, CC>>], "master")

\* annotated tag v1 (object TD) on CA
WAnnot == World({CA, CB}, [t \in {"v1"} |-> Annotated(TD, CA)], [b \in {"main"} |-> <<CA, CB>>], "main")

\* a URL that serves no repository
WEmpty == World({}, NoTags, [b \in {} |-> << >>], "")

Worlds == {WNormal, WMoved, WDangling, WLate, WMaster, WAnnot}

BranchCommits(w) == UNION {SeqToSet(w.branches[b]) : b \in DOMAIN w.branches}

BranchTip(w, b) == w.branches[b][Len(w.branches[b])]

\* the lines "hash refname" a server advertises
AdvertisedRefs(w) ==
    {<<w.tags[t].obj, TagRef(t)>> : t \in DOMAIN w.tags}
        \cup {<<w.tags[t].peeled, Peel(TagRef(t))>> : t \in {x \in DOMAIN w.tags : w.tags[x].obj # w.tags[x].peeled}}
        \cup {<<BranchTip(w, b), HeadRef(b)>> : b \in DOMAIN w.branches}

\* git's tail match of a ref name against a pattern
TailMatch(name, pat) ==
    /\ Len(pat) >= 1
    /\ Len(pat) <= Len(name)
    /\ SubSeq(name, Len(name) - Len(pat) + 1, Len(name)) = pat

\* what "git fetch origin <ref>" can fetch: the object and the commit
UpstreamRef(w, ref) ==
    IF IsTagRef(ref) /\ Len(ref) = 3 /\ ref[3] \in DOMAIN w.tags THEN w.tags[ref[3]]
    ELSE IF IsHeadRef(ref) /\ Len(ref) = 3 /\ ref[3] \in DOMAIN w.branches THEN Light(BranchTip(w, ref[3]))
    ELSE IF Len(ref) = 1 /\ ref[1] \in DOMAIN w.tags THEN w.tags[ref[1]]
    ELSE IF Len(ref) = 1 /\ ref[1] \in DOMAIN w.branches THEN Light(BranchTip(w, ref[1]))
    ELSE Light(NoHash)

\* the commit a ref resolves to upstream (peeled), NoHash when there is none
Resolves(w, ref) == UpstreamRef(w, ref).peeled

\* outcomes of an external command
NetOutcomes == {"ok", "fail", "timeout"}

\* ----------------------------------------------------------------------
\* git_ls_remote (the remote ref resolver)
\* ----------------------------------------------------------------------
\* the advertised lines whose name matches one of the patterns
MatchingLines(w, pats) ==
    {l \in AdvertisedRefs(w) : \E p \in pats : TailMatch(l[2], p)}

\* lines come sorted by ref name: refs/heads/... before refs/tags/...
LastLine(ls) ==
    IF \E l \in ls : IsTagRef(l[2]) THEN CHOOSE l \in ls : IsTagRef(l[2]) ELSE CHOOSE l \in ls : TRUE

FirstLine(ls) ==
    IF \E l \in ls : IsHeadRef(l[2]) THEN CHOOSE l \in ls : IsHeadRef(l[2]) ELSE CHOOSE l \in ls : TRUE

\* the parse of the ls-remote output: the peeled hash wins
LsRemoteParse(lines) ==
    LET peeled == {l \in lines : IsPeeled(l[2])}
        plain == {l \in lines : ~IsPeeled(l[2])}
        dereferenced_hash == IF peeled = {} THEN NoHash ELSE (CHOOSE l \in peeled : TRUE)[1]
        tag_object_hash == IF plain = {} THEN NoHash ELSE LastLine(plain)[1]
    IN IF dereferenced_hash # NoHash THEN dereferenced_hash ELSE tag_object_hash

\* git_ls_remote(url, ref): cache is LS_REMOTE_CACHE, clones the bare clones
\* under CLONE_CACHE_DIR (url -> the refs it holds), w the upstream, out the
\* outcome of the network command.  Returns the commit, the cache and
\* whether LS_REMOTE_CACHE_DIRTY was set.
git_ls_remote(cache, clones, w, url, ref, out) ==
    LET key == <<url, ref>>
        local_lines == IF url \in DOMAIN clones
                       THEN {l \in AdvertisedRefs(clones[url]) : ~IsPeeled(l[2]) /\ TailMatch(l[2], ref)}
                       ELSE {}
        refs_to_query == IF IsTagRef(ref) THEN {ref, Peel(ref)} ELSE {ref}
        commit_hash == LsRemoteParse(MatchingLines(w, refs_to_query))
    IN IF key \in DOMAIN cache
       THEN [res |-> cache[key], cache |-> cache, dirty |-> FALSE, queried |-> FALSE]
       ELSE IF local_lines # {}
       THEN [res |-> FirstLine(local_lines)[1], cache |-> DictSet(cache, key, FirstLine(local_lines)[1]),
             dirty |-> TRUE, queried |-> FALSE]
       ELSE IF out = "ok"
       THEN IF commit_hash # NoHash
            THEN [res |-> commit_hash, cache |-> DictSet(cache, key, commit_hash), dirty |-> TRUE, queried |-> TRUE]
            ELSE [res |-> NoHash, cache |-> cache, dirty |-> FALSE, queried |-> TRUE]
       ELSE [res |-> NoHash, cache |-> DictSet(cache, key, NoHash), dirty |-> TRUE, queried |-> TRUE]

\* ----------------------------------------------------------------------
\* The bare repository the verifier keeps per URL
\* ----------------------------------------------------------------------
\* tracked: the remote-tracking branches refs/remotes/origin/* with the history each holds
EmptyRepo ==
    [present |-> {}, shallow |-> FALSE, tracked |-> [b \in {} |-> << >>], tags |-> NoTags, fetch_head |-> NoHash]

\* git rev-parse --verify <target>^{commit}: a unique abbreviation resolves
CommitExists(repo, target) ==
    /\ target # NoHash
    /\ \E c \in repo.present : StartsWith(c, target)

\* git fetch --depth=1 origin <ref>
AfterFetchRef(repo, w, ref) ==
    LET r == UpstreamRef(w, ref)
    IN [repo EXCEPT !.present = @ \cup {r.peeled},
                    !.shallow = IF r.peeled \in repo.present THEN @ ELSE TRUE,
                    !.fetch_head = r.obj]

\* git fetch --depth=1 origin <commit>
AfterFetchCommit(repo, c) ==
    [repo EXCEPT !.present = @ \cup {c},
                 !.shallow = IF c \in repo.present THEN @ ELSE TRUE,
                 !.fetch_head = c]

\* tags that point into fetched history are followed; a tag the repository
\* already has is left as it is
FollowTags(repo, w, commits) ==
    [t \in DOMAIN repo.tags \cup {x \in DOMAIN w.tags : w.tags[x].peeled \in commits} |->
        IF t \in DOMAIN repo.tags THEN repo.tags[t] ELSE w.tags[t]]

\* git fetch [--unshallow] origin +refs/heads/*:refs/remotes/origin/*: every
\* branch of the server is updated, a branch the server dropped is not pruned
AfterFullFetch(repo, w) ==
    [present |-> repo.present \cup BranchCommits(w),
     shallow |-> FALSE,
     tracked |-> [b \in DOMAIN repo.tracked \cup DOMAIN w.branches |->
                     IF b \in DOMAIN w.branches THEN w.branches[b] ELSE repo.tracked[b]],
     tags |-> FollowTags(repo, w, BranchCommits(w)),
     fetch_head |-> BranchTip(w, CHOOSE b \in DOMAIN w.branches : TRUE)]

\* git fetch origin <b>:refs/remotes/origin/<b>
AfterFetchBranch(repo, w, b) ==
    [repo EXCEPT !.present = @ \cup SeqToSet(w.branches[b]),
                 !.tracked = [x \in DOMAIN repo.tracked \cup {b} |->
                                 IF x = b THEN w.branches[b] ELSE repo.tracked[x]],
                 !.tags = FollowTags(repo, w, SeqToSet(w.branches[b])),
                 !.fetch_head = BranchTip(w, b)]

\* git show-ref --verify --hash <ref> in the bare repository
ShowRefVerify(repo, ref) ==
    IF IsTagRef(ref) /\ Len(ref) = 3 /\ ref[3] \in DOMAIN repo.tags THEN repo.tags[ref[3]].obj
    ELSE NoHash

\* git for-each-ref --contains <commit> refs/remotes/origin/, in name order
BranchesContaining(repo, c) ==
    SelectSeq(BranchOrder, LAMBDA b : b \in DOMAIN repo.tracked
                                       /\ \E x \in SeqToSet(repo.tracked[b]) : StartsWith(x, c))

\* main, then master, then the first branch
PickBranch(branches) ==
    IF "main" \in SeqToSet(branches) THEN "main"
    ELSE IF "master" \in SeqToSet(branches) THEN "master"
    ELSE branches[1]

\* git log -1 --format=%H --until=<date> origin/<b>: newest commit not after date
LogUntil(h, date) ==
    LET ok == {i \in 1..Len(h) : Date(h[i]) <= date}
    IN IF ok = {} THEN NoHash ELSE h[CHOOSE i \in ok : \A j \in ok : j <= i]

\* _find_fallback_commit(vcs_url, version, timestamp) run in the bare
\* repository repo against upstream w; o gives the outcome of the symref
\* query and of the fetch (or, without a date, of the ls-remote of the tip).
\* commit is NoHash for None.
FallbackTargetDate(version, timestamp) ==
    IF timestamp # NoTs THEN timestamp
    ELSE IF version.ts # NoTs /\ version.ts >= 0 /\ Len(version.short) >= 1 /\ version.short[1] \in HexLower
         THEN version.ts
         ELSE NoTs

FallbackDefaultBranch(w, o) == IF o.symref = "ok" /\ w.head # "" THEN w.head ELSE "main"

FallbackPickTip(h, date) == h[Len(h)]

\* git log -1 --until on origin/<default_branch>, else git rev-parse of it
FallbackPick(h, date) ==
    IF LogUntil(h, date) # NoHash THEN LogUntil(h, date) ELSE h[Len(h)]

_find_fallback_commit(repo, w, version, timestamp, o) ==
    LET target_date == FallbackTargetDate(version, timestamp)
        default_branch == FallbackDefaultBranch(w, o)
        repo1 == IF o.fetch = "ok" /\ default_branch \in DOMAIN w.branches
                 THEN AfterFetchBranch(repo, w, default_branch) ELSE repo
        none == [commit |-> NoHash, branch |-> "", repo |-> repo]
    IN IF target_date # NoTs
       THEN IF o.fetch = "timeout" THEN none
            ELSE IF default_branch \in DOMAIN repo1.tracked
            THEN [commit |-> FallbackPick(repo1.tracked[default_branch], target_date),
                  branch |-> default_branch, repo |-> repo1]
            ELSE [commit |-> NoHash, branch |-> "", repo |-> repo1]
       ELSE IF o.fetch = "ok" /\ default_branch \in DOMAIN w.branches
            THEN [commit |-> BranchTip(w, default_branch), branch |-> default_branch, repo |-> repo]
            ELSE none

FallbackOutcomes == [symref : {"ok", "fail"}, fetch : NetOutcomes]

\* resolve_pseudo_version_commit(vcs_url, timestamp_str, short_commit): the
\* first commit of the clone within one day of the timestamp whose hash
\* starts with short_commit; out is the outcome of the clone or fetch
InWindow(c, ts) == Date(c) >= ts - 1 /\ Date(c) <= ts + 1

ResolveInClone(w, ts, short_commit) ==
    LET all == BranchCommits(w) \cup {w.tags[t].peeled : t \in DOMAIN w.tags}
        hits == {c \in all : InWindow(c, ts) /\ StartsWith(c, short_commit)}
    IN IF hits = {} THEN NoHash ELSE CHOOSE c \in hits : \A d \in hits : Date(d) <= Date(c)

resolve_pseudo_version_commit(w, ts, short_commit, out) ==
    IF ts < Epoch THEN NoHash
    ELSE IF out # "ok" THEN NoHash
    ELSE ResolveInClone(w, ts, short_commit)

\* ----------------------------------------------------------------------
\* Module records
\* ----------------------------------------------------------------------
Record(path, version, url, hash, ref, subdir, ts) ==
    [module_path |-> path, version |-> version, vcs_url |-> url, vcs_hash |-> hash,
     vcs_ref |-> ref, subdir |-> subdir, timestamp |-> ts, repo_key |-> << >>, commit_sha |-> << >>]

NoSubdir == << >>

V1 == TagVersion("v1")

PsA == PseudoVersion("v0.0.0", 1, SA)

PsB == PseudoVersion("v0.0.0", 2, Prefix(CB, 12))

\* hashlib.sha256(f"git3:{url}")
repo_key_for_url(url) == <<"git3:", url>>

\* hashlib.sha256(f"{repo_key}:{commit}")
commit_cache_key(repo_key, commit) == <<repo_key, commit>>

\* ----------------------------------------------------------------------
\* State
\* ----------------------------------------------------------------------
VARIABLES
    pc,                         \* position of the main thread
    modules,                    \* the module list
    verify_jobs, skip_verify, validate_only,
    upstream,                   \* url -> world
    clones,                     \* bare clones under CLONE_CACHE_DIR: url -> refs held
    verify_dirs,                \* bare repositories under VERIFY_BASE_DIR: url -> repo
    now,                        \* the current day
    VERIFY_CACHE_MAX_AGE_DAYS,
    LS_REMOTE_CACHE, LS_REMOTE_CACHE_DIRTY,
    MODULE_METADATA_CACHE, MODULE_METADATA_CACHE_DIRTY,
    VERIFY_RESULTS, VERIFY_COMMIT_CACHE, VERIFY_COMMIT_CACHE_V2, VERIFY_COMMIT_CACHE_DIRTY,
    VERIFY_FALLBACK_COMMITS, VERIFY_DETECTED_BRANCHES, VERIFY_FULL_REPOS,
    VERIFY_REPO_CACHE, VERIFY_REPO_LOCKS, lock_owner,
    body_runs,                  \* history: (url, commit) -> times the body of verify_commit_accessible ended
    VERIFY_REPO_LOCKS_LOCK,     \* thread holding the registry lock, 0 when free
    mutexes_created,            \* threading.Lock() calls of line 543, per URL
    VERIFY_CORRECTIONS_APPLIED,
    verify_cache_file,          \* content of verify-cache.json
    ls_remote_file,             \* content of ls-remote-cache.json
    metadata_file,              \* content of module-cache.json
    repo_overrides_file,        \* content of repo-overrides.json
    vanity_file,                \* content of vanity-url-cache.json
    VANITY_URL_CACHE, VANITY_URL_CACHE_DIRTY,
    args,                       \* the command line: --clear-commit and --inject-commit pairs
    discovered,                 \* the modules of the discovery file
    run,                        \* 1 in the first run of the engine, 2 in the second
    reliable,                   \* no external command fails or times out
    probe,                      \* the last call of a function examined on its own
    first_out,                  \* the include files the first run wrote
    cache_writes,               \* history: the cache files this run wrote
    interrupted,                \* the user interrupted the run
    MODULE_REPO_OVERRIDES, MODULE_REPO_OVERRIDES_DIRTY, MANUAL_OVERRIDES,
    override_query,             \* the last call of repo_override_candidates and what it returned
    vcs_repos,                  \* repo_key -> [url, commits]
    workers,                    \* verification threads
    next_idx,                   \* next module the pool hands out
    results,                    \* idx -> result of verify_module
    src_uri_entries, modules_data, files_written,
    gen_result,                 \* "none", "true", "false" or "raised"
    go_sum,                     \* the lines of go.sum: [path, version, gomod]
    go_sum_modules_with_source, \* sorted(go_sum_modules_with_source)
    go_sum_indirect_only,       \* sorted(go_sum_indirect_only)
    go_mod_replaces,            \* old path -> <<new path, new version>>
    src_i, ind_i,               \* positions of the two loops of _execute
    FAILED_MODULE_PATHS, FAILED_MODULE_ENTRIES, SKIPPED_MODULES,
    vcs_ref_local,              \* the local vcs_ref of _execute: unbound until assigned
    exit_code,
    fb_trace                    \* history: substitutions made by the fallback search

cfgVars == <<verify_jobs, skip_verify, validate_only, upstream, now, VERIFY_CACHE_MAX_AGE_DAYS>>

lsVars == <<LS_REMOTE_CACHE, LS_REMOTE_CACHE_DIRTY, clones>>

metaVars == <<MODULE_METADATA_CACHE, MODULE_METADATA_CACHE_DIRTY>>

verVars == <<VERIFY_RESULTS, VERIFY_COMMIT_CACHE, VERIFY_COMMIT_CACHE_V2, VERIFY_COMMIT_CACHE_DIRTY,
             VERIFY_FALLBACK_COMMITS, VERIFY_DETECTED_BRANCHES, VERIFY_FULL_REPOS>>

lockVars == <<lock_owner, body_runs>>

regVars == <<VERIFY_REPO_CACHE, VERIFY_REPO_LOCKS, VERIFY_REPO_LOCKS_LOCK, mutexes_created>>

outVars == <<src_uri_entries, modules_data, files_written, gen_result, VERIFY_CORRECTIONS_APPLIED>>

poolVars == <<workers, next_idx, results>>

sumVars == <<go_sum, go_sum_modules_with_source, go_sum_indirect_only, go_mod_replaces>>

execVars == <<sumVars, src_i, ind_i, FAILED_MODULE_PATHS, FAILED_MODULE_ENTRIES, SKIPPED_MODULES,
              vcs_ref_local, exit_code>>

ovrVars == <<MODULE_REPO_OVERRIDES, MODULE_REPO_OVERRIDES_DIRTY, MANUAL_OVERRIDES, override_query>>

vanVars == <<VANITY_URL_CACHE, VANITY_URL_CACHE_DIRTY>>

fileVars == <<ls_remote_file, metadata_file, repo_overrides_file, vanity_file>>

sessVars == <<vanVars, fileVars, args, discovered, run, reliable, probe, first_out, cache_writes, interrupted>>

vars == <<pc, modules, cfgVars, lsVars, metaVars, verVars, regVars, lockVars, verify_dirs,
          verify_cache_file, ovrVars, sessVars, vcs_repos, poolVars, outVars, fb_trace, execVars>>

\* ----------------------------------------------------------------------
\* Initial states of a generation run
\* ----------------------------------------------------------------------
RTagA == Record(Pab, V1, U1, CA, TagRef("v1"), NoSubdir, Epoch)

RPseudoA == Record(Pab, PsA, U1, CA, NoRef, NoSubdir, 1)

RPseudoB == Record(Pab, PsB, U1, CB, NoRef, NoSubdir, 2)

\* a discovery record whose hash is still the 12 characters of the pseudo-version
RShortA == Record(Pab, PsA, U1, SA, NoRef, NoSubdir, 1)

RBranchA == Record(Pabc, V1, U1, CA, HeadRef("main"), <<"c">>, Epoch)

GenCandidates == {RTagA, RPseudoA, RPseudoB, RShortA, RBranchA}

KeyOf(m) == <<m.module_path, m.version>>

DistinctKeys(l) == \A i, j \in 1..Len(l) : i # j => KeyOf(l[i]) # KeyOf(l[j])

GenLists ==
    {l \in UNION {[1..n -> GenCandidates] : n \in 1..MaxListLen} : DistinctKeys(l)}

IdleWorker == [pc |-> "idle", idx |-> 0, cvp |-> FALSE, actual |-> NoHash, fb_branch |-> "", ret |-> "none"]

V2Entry(first, last, method) ==
    [verified |-> TRUE, first_verified |-> first, last_checked |-> last, fetch_method |-> method]

\* a bare repository left by an earlier run, when main was at CA tagged v1
StaleRepo ==
    [present |-> {CA}, shallow |-> FALSE, tracked |-> [b \in {"main"} |-> <<CA>>],
     tags |-> [t \in {"v1"} |-> Light(CA)],
     fetch_head |-> CA]

NotExited == 0 - 1

Unbound == [bound |-> FALSE, val |-> NoRef]

\* what an external command can answer: anything while the network is
\* unreliable, success only while it is reliable
CommandOutcomes == IF reliable THEN {"ok"} ELSE {"ok", "fail"}

FetchOutcomes == IF reliable THEN {"ok"} ELSE NetOutcomes

LogOutcomes == IF reliable THEN {"ok"} ELSE {"ok", "timeout"}

SearchOutcomes == IF reliable THEN [symref : {"ok"}, fetch : {"ok"}] ELSE FallbackOutcomes

\* --validate is the same in both runs
ValidateArg(S) == IF run = 1 THEN S ELSE {validate_only}

\* no function has been examined on its own
NoProbe == [op |-> "none"]

NoArgs == [clear_commit |-> {}, inject_commit |-> {}]

NoOutput == [src_uri_entries |-> {}, modules_data |-> << >>, files_written |-> FALSE]

NoQuery == [module_path |-> "", version |-> "", overrides |-> << >>]

\* a single run on an empty data directory, external commands failing at will,
\* no repository overrides
\* Python's None where a string is optional
None == "<None>"

SessionStart(table) ==
    /\ ls_remote_file = EmptyDict
    /\ metadata_file = EmptyDict
    /\ repo_overrides_file = EmptyDict
    /\ vanity_file = EmptyDict
    /\ VANITY_URL_CACHE = EmptyDict
    /\ VANITY_URL_CACHE_DIRTY = FALSE
    /\ args = NoArgs
    /\ discovered = modules
    /\ run = 1
    /\ reliable = FALSE
    /\ probe = NoProbe
    /\ first_out = NoOutput
    /\ cache_writes = {}
    /\ interrupted = FALSE
    /\ MODULE_REPO_OVERRIDES = table
    /\ MODULE_REPO_OVERRIDES_DIRTY = (table # EmptyDict)
    /\ MANUAL_OVERRIDES = EmptyDict
    /\ override_query = NoQuery

\* a session without --set-repo
FreshSession == SessionStart(EmptyDict)

\* go.sum and go.mod ask for nothing beyond the discovered modules
NoDriverWork ==
    /\ go_sum = {}
    /\ go_sum_modules_with_source = << >>
    /\ go_sum_indirect_only = << >>
    /\ go_mod_replaces = EmptyDict
    /\ src_i = 1
    /\ ind_i = 1
    /\ FAILED_MODULE_PATHS = {}
    /\ FAILED_MODULE_ENTRIES = {}
    /\ SKIPPED_MODULES = EmptyDict
    /\ vcs_ref_local = Unbound
    /\ exit_code = NotExited

GenStart(lists, jobs, skips, worlds, repos, injects) ==
    /\ pc = "load"
    /\ modules \in lists
    /\ verify_jobs \in jobs
    /\ skip_verify \in skips
    /\ validate_only = FALSE
    /\ \E w \in worlds : upstream = [u \in Urls |-> IF u = U1 THEN w ELSE WNormal]
    /\ clones = [u \in {} |-> WNormal]
    /\ \E r \in repos : verify_dirs = [u \in Urls |-> IF u = U1 THEN r ELSE EmptyRepo]
    /\ now = 100
    /\ VERIFY_CACHE_MAX_AGE_DAYS = 30
    /\ LS_REMOTE_CACHE = EmptyDict
    /\ LS_REMOTE_CACHE_DIRTY = FALSE
    /\ MODULE_METADATA_CACHE = EmptyDict
    /\ MODULE_METADATA_CACHE_DIRTY = FALSE
    \* --inject-commit U1 CA marks the pair verified before the run
    /\ \E inject \in injects :
        /\ VERIFY_RESULTS = IF inject THEN [k \in {<<U1, CA>>} |-> TRUE] ELSE EmptyDict
        /\ VERIFY_COMMIT_CACHE = IF inject THEN [k \in {<<U1, CA>>} |-> TRUE] ELSE EmptyDict
        /\ VERIFY_COMMIT_CACHE_DIRTY = inject
    /\ VERIFY_COMMIT_CACHE_V2 = EmptyDict
    /\ VERIFY_FALLBACK_COMMITS = EmptyDict
    /\ VERIFY_DETECTED_BRANCHES = EmptyDict
    /\ VERIFY_FULL_REPOS = {}
    /\ VERIFY_REPO_CACHE = {}
    /\ VERIFY_REPO_LOCKS = {}
    /\ VERIFY_REPO_LOCKS_LOCK = 0
    /\ mutexes_created = [u \in Urls |-> 0]
    /\ lock_owner = [u \in Urls |-> 0]
    /\ body_runs = EmptyDict
    /\ VERIFY_CORRECTIONS_APPLIED = FALSE
    /\ verify_cache_file = EmptyDict
    /\ FreshSession
    /\ vcs_repos = EmptyDict
    /\ workers = [t \in 1..MaxJobs |-> IdleWorker]
    /\ next_idx = 1
    /\ results = EmptyDict
    /\ src_uri_entries = {}
    /\ modules_data = << >>
    /\ files_written = FALSE
    /\ gen_result = "none"
    /\ fb_trace = {}
    /\ NoDriverWork

\* the modules of a run that is long enough for a periodic save
LongListLen == 50

\* that many modules of one repository at one commit, each in its own subdirectory
LongList ==
    [i \in 1..LongListLen |->
        Record(<<"github.com", "a", "b", ToString(i)>>, PsA, U1, CA, NoRef, <<ToString(i)>>, 1)]

\* the runs of SpecFair, sequential too, and the runs over the long list
InitLong ==
    \/ GenStart(GenLists, {0, MaxJobs}, {FALSE}, Worlds, {EmptyRepo}, {FALSE})
    \/ GenStart({LongList}, {0, 1}, {FALSE}, {WNormal}, {EmptyRepo}, {FALSE})

InitGen == GenStart(GenLists, 0..MaxJobs, BOOLEAN, Worlds, {EmptyRepo, StaleRepo}, BOOLEAN)

\* the runs with a full pool that verify from empty repositories
InitFair == GenStart(GenLists, {MaxJobs}, {FALSE}, Worlds, {EmptyRepo}, {FALSE})

\* ----------------------------------------------------------------------
\* load_discovered_modules: expansion of 12-character hashes
\* ----------------------------------------------------------------------
ExpandShortHash(m, w, out) ==
    LET pseudo_info == parse_pseudo_version_tag(m.version)
        full_hash == resolve_pseudo_version_commit(w, pseudo_info[1], m.vcs_hash, out)
    IN IF Len(m.vcs_hash) # ShortHashLen THEN m
       ELSE IF pseudo_info = << >> THEN m
       ELSE IF full_hash # NoHash /\ Len(full_hash) = FullHashLen THEN [m EXCEPT !.vcs_hash = full_hash]
       ELSE m

LoadDiscoveredModules ==
    /\ pc = "load"
    /\ \E out \in CommandOutcomes :
         modules' = [i \in 1..Len(modules) |-> ExpandShortHash(modules[i], upstream[modules[i].vcs_url], out)]
    /\ pc' = "source"
    /\ UNCHANGED <<execVars, cfgVars, lsVars, metaVars, verVars, regVars, lockVars, verify_dirs,
                   verify_cache_file, ovrVars, sessVars, vcs_repos, poolVars, outVars, fb_trace>>

\* ----------------------------------------------------------------------
\* generate_recipe, first pass: the repository structure
\* ----------------------------------------------------------------------
_ref_points_to_commit(repo, ref_hint, commit_hash) ==
    /\ ref_hint # NoRef
    /\ ShowRefVerify(repo, ref_hint) # NoHash
    /\ ShowRefVerify(repo, ref_hint) = commit_hash

NewRepoInfo(url) == [url |-> url, commits |-> EmptyDict]

NewCommitInfo(sha) == [commit_sha |-> sha, modules |-> << >>, ref_hint |-> NoRef]

RECURSIVE FirstPassLoop(_, _, _, _)
FirstPassLoop(mods, repos, dirs, i) ==
    IF i > Len(mods) THEN [mods |-> mods, repos |-> repos]
    ELSE LET m == mods[i]
             commit_hash == m.vcs_hash
             repo_key == repo_key_for_url(m.vcs_url)
             repo_info == DictGet(repos, repo_key, NewRepoInfo(m.vcs_url))
             commit_sha == IF commit_hash \in DOMAIN repo_info.commits
                           THEN repo_info.commits[commit_hash].commit_sha
                           ELSE commit_cache_key(repo_key, commit_hash)
             old == DictGet(repo_info.commits, commit_hash, NewCommitInfo(commit_sha))
             keep == _ref_points_to_commit(dirs[m.vcs_url], m.vcs_ref, commit_hash)
             entry == [old EXCEPT !.modules = Append(@, i),
                                  !.ref_hint = IF keep THEN m.vcs_ref ELSE @]
             info1 == [repo_info EXCEPT !.commits = DictSet(@, commit_hash, entry)]
         IN FirstPassLoop([mods EXCEPT ![i].repo_key = repo_key, ![i].commit_sha = commit_sha],
                          DictSet(repos, repo_key, info1), dirs, i + 1)

\* line 543 for the URLs of a set: one Lock() for each URL not yet registered
CreateMutexes(urls) ==
    [u \in Urls |-> IF u \in urls \ VERIFY_REPO_LOCKS THEN mutexes_created[u] + 1 ELSE mutexes_created[u]]

FirstPass ==
    /\ pc = "first_pass"
    /\ LET r == FirstPassLoop(modules, EmptyDict, verify_dirs, 1)
           with_ref == {modules[i].vcs_url : i \in {j \in 1..Len(modules) : modules[j].vcs_ref # NoRef}}
       IN /\ modules' = r.mods
          /\ vcs_repos' = r.repos
          /\ VERIFY_REPO_CACHE' = VERIFY_REPO_CACHE \cup with_ref
          /\ VERIFY_REPO_LOCKS' = VERIFY_REPO_LOCKS \cup with_ref
          /\ mutexes_created' = CreateMutexes(with_ref)
          /\ UNCHANGED VERIFY_REPO_LOCKS_LOCK
    /\ \E validate \in ValidateArg(IF skip_verify THEN BOOLEAN ELSE {FALSE}) :
         /\ validate_only' = validate
         /\ pc' = IF ~skip_verify THEN "verify" ELSE IF validate THEN "done" ELSE "emit"
         /\ gen_result' = IF skip_verify /\ validate THEN "true" ELSE gen_result
    /\ UNCHANGED <<execVars, verify_jobs, skip_verify, upstream, now, VERIFY_CACHE_MAX_AGE_DAYS, lsVars, metaVars, verVars,
                   lockVars, verify_dirs, verify_cache_file, ovrVars, sessVars, poolVars, src_uri_entries, modules_data,
                   files_written, VERIFY_CORRECTIONS_APPLIED, fb_trace>>

\* ----------------------------------------------------------------------
\* generate_recipe, second pass: the pool hands modules to verify_module
\* ----------------------------------------------------------------------
Active(t) == IF verify_jobs = 0 THEN t = 1 ELSE t <= verify_jobs

Raised == \E i \in DOMAIN results : results[i].kind = "raised"

Url(t) == modules[workers[t].idx].vcs_url

Commit(t) == modules[workers[t].idx].vcs_hash

RefHint(t) == modules[workers[t].idx].vcs_ref

Key(t) == <<Url(t), Commit(t)>>

Repo(t) == verify_dirs[Url(t)]

Ret(t, r) == [workers[t] EXCEPT !.pc = "vm_post", !.ret = r]

At(t, p) == [workers[t] EXCEPT !.pc = p]

Hold(t) == UNCHANGED lockVars

\* the end of the `with lock` block
Release(t) ==
    /\ lock_owner' = [lock_owner EXCEPT ![Url(t)] = 0]
    /\ body_runs' = DictSet(body_runs, Key(t), DictGet(body_runs, Key(t), 0) + 1)

\* VERIFY_RESULTS[key] = False; VERIFY_COMMIT_CACHE.pop(cache_key); return False
FailPop(t) ==
    /\ VERIFY_RESULTS' = DictSet(VERIFY_RESULTS, Key(t), FALSE)
    /\ VERIFY_COMMIT_CACHE' = DictPop(VERIFY_COMMIT_CACHE, Key(t))
    /\ VERIFY_COMMIT_CACHE_DIRTY' = TRUE
    /\ workers' = [workers EXCEPT ![t] = Ret(t, "false")]
    /\ Release(t)

\* VERIFY_RESULTS[key] = False; return False
FailKeep(t) ==
    /\ VERIFY_RESULTS' = DictSet(VERIFY_RESULTS, Key(t), FALSE)
    /\ UNCHANGED <<VERIFY_COMMIT_CACHE, VERIFY_COMMIT_CACHE_DIRTY>>
    /\ workers' = [workers EXCEPT ![t] = Ret(t, "false")]
    /\ Release(t)

\* an exception leaves verify_commit_accessible: the lock is released, nothing else is set
Raise(t) ==
    /\ workers' = [workers EXCEPT ![t] = Ret(t, "raised")]
    /\ Release(t)

V_Take(t) ==
    /\ pc = "verify"
    /\ Active(t)
    /\ workers[t].pc = "idle"
    /\ \A u \in 1..(t - 1) : Active(u) => workers[u].pc # "idle"
    /\ next_idx <= Len(modules)
    /\ verify_jobs = 0 => ~Raised
    /\ workers' = [workers EXCEPT ![t] = [IdleWorker EXCEPT !.pc = "v_start", !.idx = next_idx,
                                                            !.actual = modules[next_idx].vcs_hash]]
    /\ next_idx' = next_idx + 1
    /\ UNCHANGED <<execVars, pc, modules, cfgVars, lsVars, metaVars, verVars, regVars, lockVars, verify_dirs,
                   verify_cache_file, ovrVars, sessVars, vcs_repos, results, outVars, fb_trace>>

\* a successful entry counts whatever its age
AgeIgnored(entry) == entry.verified

\* verify_commit_accessible up to _verify_repo_dir and its quick check
\* without a lock (line 509)
CacheFresh(entry) ==
    /\ entry.verified
    /\ entry.last_checked = NoTs \/ now - entry.last_checked < VERIFY_CACHE_MAX_AGE_DAYS

V_Start(t) ==
    /\ workers[t].pc = "v_start"
    /\ IF Key(t) \in DOMAIN VERIFY_RESULTS
       THEN /\ workers' = [workers EXCEPT ![t] = Ret(t, IF VERIFY_RESULTS[Key(t)] THEN "true" ELSE "false")]
            /\ UNCHANGED <<VERIFY_COMMIT_CACHE_V2, regVars>>
       ELSE LET v2hit == Key(t) \in DOMAIN VERIFY_COMMIT_CACHE_V2 /\ CacheFresh(VERIFY_COMMIT_CACHE_V2[Key(t)])
                legacy == DictGet(VERIFY_COMMIT_CACHE, Key(t), FALSE)
            IN /\ VERIFY_COMMIT_CACHE_V2' =
                     IF legacy THEN DictSet(VERIFY_COMMIT_CACHE_V2, Key(t), V2Entry(now, now, "cached"))
                     ELSE VERIFY_COMMIT_CACHE_V2
               /\ workers' = [workers EXCEPT ![t] =
                     [At(t, IF Url(t) \in VERIFY_REPO_CACHE THEN "v_lock" ELSE "v_master")
                         EXCEPT !.cvp = v2hit \/ legacy]]
               /\ UNCHANGED regVars
    /\ UNCHANGED <<execVars, pc, modules, cfgVars, lsVars, metaVars, VERIFY_RESULTS, VERIFY_COMMIT_CACHE,
                   VERIFY_COMMIT_CACHE_DIRTY, VERIFY_FALLBACK_COMMITS, VERIFY_DETECTED_BRANCHES, VERIFY_FULL_REPOS,
                   lockVars, verify_dirs, verify_cache_file, ovrVars, sessVars, vcs_repos, next_idx, results,
                   outVars, fb_trace>>

\* _verify_repo_dir, lines 513-539: under the registry lock the double
\* check, git init or remote set-url, and the directory entered in
\* VERIFY_REPO_CACHE
V_Master(t) ==
    /\ workers[t].pc = "v_master"
    /\ VERIFY_REPO_LOCKS_LOCK \in {0, t}
    /\ IF Url(t) \in VERIFY_REPO_CACHE
       THEN /\ workers' = [workers EXCEPT ![t] = At(t, "v_lock")]
            /\ UNCHANGED regVars
       ELSE /\ VERIFY_REPO_CACHE' = VERIFY_REPO_CACHE \cup {Url(t)}
            /\ VERIFY_REPO_LOCKS_LOCK' = t
            /\ workers' = [workers EXCEPT ![t] = At(t, "v_new_lock")]
            /\ UNCHANGED <<VERIFY_REPO_LOCKS, mutexes_created>>
    /\ UNCHANGED <<execVars, pc, modules, cfgVars, lsVars, metaVars, verVars, lockVars, verify_dirs,
                   verify_cache_file, ovrVars, sessVars, vcs_repos, next_idx, results, outVars, fb_trace>>

\* _verify_repo_dir, lines 541-545: the mutex of the URL is created and
\* the registry lock released
V_NewLock(t) ==
    /\ workers[t].pc = "v_new_lock"
    /\ VERIFY_REPO_LOCKS' = VERIFY_REPO_LOCKS \cup {Url(t)}
    /\ mutexes_created' = CreateMutexes({Url(t)})
    /\ VERIFY_REPO_LOCKS_LOCK' = 0
    /\ workers' = [workers EXCEPT ![t] = At(t, "v_lock")]
    /\ UNCHANGED <<execVars, pc, modules, cfgVars, lsVars, metaVars, verVars, VERIFY_REPO_CACHE, lockVars,
                   verify_dirs, verify_cache_file, ovrVars, sessVars, vcs_repos, next_idx, results, outVars,
                   fb_trace>>

NoWait(t) == TRUE

\* line 757, with lock: the thread waits until the mutex of its URL is free
LockFree(t) == lock_owner[Url(t)] = 0

\* line 755, VERIFY_REPO_LOCKS[vcs_url]: a KeyError leaves the function
\* with no lock taken
KeyError(t) ==
    /\ workers' = [workers EXCEPT ![t] = Ret(t, "raised")]
    /\ UNCHANGED <<lockVars, VERIFY_COMMIT_CACHE, VERIFY_COMMIT_CACHE_DIRTY>>

\* the registry lookup, then with lock: the double check, _commit_exists
\* and the stale legacy entry
V_Lock(t) ==
    /\ workers[t].pc = "v_lock"
    /\ Url(t) \in VERIFY_REPO_LOCKS => LockFree(t)
    /\ IF Url(t) \notin VERIFY_REPO_LOCKS
       THEN KeyError(t)
       ELSE IF Key(t) \in DOMAIN VERIFY_RESULTS
       THEN /\ workers' = [workers EXCEPT ![t] = Ret(t, IF VERIFY_RESULTS[Key(t)] THEN "true" ELSE "false")]
            /\ UNCHANGED <<lockVars, VERIFY_COMMIT_CACHE, VERIFY_COMMIT_CACHE_DIRTY>>
       ELSE LET commit_present == CommitExists(Repo(t), Commit(t))
                cached == DictGet(VERIFY_COMMIT_CACHE, Key(t), FALSE)
            IN /\ lock_owner' = [lock_owner EXCEPT ![Url(t)] = t]
               /\ UNCHANGED body_runs
               /\ VERIFY_COMMIT_CACHE' = IF cached /\ ~commit_present THEN DictPop(VERIFY_COMMIT_CACHE, Key(t))
                                         ELSE VERIFY_COMMIT_CACHE
               /\ VERIFY_COMMIT_CACHE_DIRTY' = IF cached /\ ~commit_present THEN TRUE ELSE VERIFY_COMMIT_CACHE_DIRTY
               /\ workers' = [workers EXCEPT ![t] =
                     At(t, IF RefHint(t) # NoRef /\ ~commit_present THEN "v_fetch_ref" ELSE "v_full_fetch")]
    /\ UNCHANGED <<execVars, pc, modules, cfgVars, lsVars, metaVars, VERIFY_RESULTS, VERIFY_COMMIT_CACHE_V2,
                   VERIFY_FALLBACK_COMMITS, VERIFY_DETECTED_BRANCHES, VERIFY_FULL_REPOS,
                   regVars, verify_dirs, verify_cache_file, ovrVars, sessVars, vcs_repos, next_idx, results, outVars, fb_trace>>

SetRepo(t, repo) == verify_dirs' = [verify_dirs EXCEPT ![Url(t)] = repo]

\* git fetch --depth=1 origin <ref_hint>: a failure or a timeout is only reported
V_FetchRef(t) ==
    /\ workers[t].pc = "v_fetch_ref"
    /\ \E out \in CommandOutcomes :
         SetRepo(t, IF out = "ok" /\ Resolves(upstream[Url(t)], RefHint(t)) # NoHash
                    THEN AfterFetchRef(Repo(t), upstream[Url(t)], RefHint(t)) ELSE Repo(t))
    /\ workers' = [workers EXCEPT ![t] = At(t, "v_fetch_commit")]
    /\ UNCHANGED <<execVars, pc, modules, cfgVars, lsVars, metaVars, verVars, regVars, lockVars,
                   verify_cache_file, ovrVars, sessVars, vcs_repos, next_idx, results, outVars, fb_trace>>

\* git fetch --depth=1 origin <commit>: only CalledProcessError is caught
V_FetchCommit(t) ==
    /\ workers[t].pc = "v_fetch_commit"
    /\ \E out \in FetchOutcomes :
         IF out = "ok" /\ Commit(t) \in upstream[Url(t)].commits
         THEN /\ SetRepo(t, AfterFetchCommit(Repo(t), Commit(t)))
              /\ workers' = [workers EXCEPT ![t] = At(t, "v_exists")]
              /\ UNCHANGED <<lockVars, VERIFY_RESULTS, VERIFY_COMMIT_CACHE, VERIFY_COMMIT_CACHE_DIRTY>>
         ELSE IF out = "timeout"
         THEN /\ Raise(t)
              /\ UNCHANGED <<verify_dirs, VERIFY_RESULTS, VERIFY_COMMIT_CACHE, VERIFY_COMMIT_CACHE_DIRTY>>
         ELSE IF IsTagRef(RefHint(t))
         THEN /\ workers' = [workers EXCEPT ![t] = At(t, "v_tag_refetch")]
              /\ UNCHANGED <<verify_dirs, lockVars, VERIFY_RESULTS, VERIFY_COMMIT_CACHE, VERIFY_COMMIT_CACHE_DIRTY>>
         ELSE /\ FailPop(t)
              /\ UNCHANGED verify_dirs
    /\ UNCHANGED <<execVars, pc, modules, cfgVars, lsVars, metaVars, VERIFY_COMMIT_CACHE_V2, VERIFY_FALLBACK_COMMITS,
                   VERIFY_DETECTED_BRANCHES, VERIFY_FULL_REPOS, regVars,
                   verify_cache_file, ovrVars, sessVars, vcs_repos, next_idx, results, outVars, fb_trace>>

\* the statement that ends the tag-moved branch: it names module_path, which
\* is neither a parameter nor a global, so a NameError leaves the function
TagMovedReturn(t) == Raise(t)

\* the tag is fetched again and FETCH_HEAD compared with the commit
V_TagRefetch(t) ==
    /\ workers[t].pc = "v_tag_refetch"
    /\ \E out \in FetchOutcomes :
         IF out = "ok" /\ Resolves(upstream[Url(t)], RefHint(t)) # NoHash
         THEN LET repo1 == AfterFetchRef(Repo(t), upstream[Url(t)], RefHint(t))
                  current_tag_commit == repo1.fetch_head
              IN /\ SetRepo(t, repo1)
                 /\ IF current_tag_commit # Commit(t)
                    THEN /\ VERIFY_FALLBACK_COMMITS' = DictSet(VERIFY_FALLBACK_COMMITS, Key(t), current_tag_commit)
                         /\ TagMovedReturn(t)
                         /\ UNCHANGED <<VERIFY_RESULTS, VERIFY_COMMIT_CACHE, VERIFY_COMMIT_CACHE_DIRTY>>
                    ELSE /\ FailPop(t)
                         /\ UNCHANGED VERIFY_FALLBACK_COMMITS
         ELSE IF out = "timeout"
         THEN /\ Raise(t)
              /\ UNCHANGED <<verify_dirs, VERIFY_FALLBACK_COMMITS, VERIFY_RESULTS, VERIFY_COMMIT_CACHE,
                             VERIFY_COMMIT_CACHE_DIRTY>>
         ELSE /\ FailPop(t)
              /\ UNCHANGED <<verify_dirs, VERIFY_FALLBACK_COMMITS>>
    /\ UNCHANGED <<execVars, pc, modules, cfgVars, lsVars, metaVars, VERIFY_COMMIT_CACHE_V2,
                   VERIFY_DETECTED_BRANCHES, VERIFY_FULL_REPOS, regVars,
                   verify_cache_file, ovrVars, sessVars, vcs_repos, next_idx, results, outVars, fb_trace>>

\* git fetch [--unshallow] origin +refs/heads/*:refs/remotes/origin/*
FetchAll(repo, w, unshallow) ==
    [AfterFullFetch(repo, w) EXCEPT !.shallow = IF unshallow THEN FALSE ELSE repo.shallow]

V_FullFetch(t) ==
    /\ workers[t].pc = "v_full_fetch"
    /\ LET unshallow == Repo(t).shallow /\ Url(t) \notin VERIFY_FULL_REPOS
       IN \E out \in FetchOutcomes :
            IF out = "ok"
            THEN /\ SetRepo(t, FetchAll(Repo(t), upstream[Url(t)], unshallow))
                 /\ VERIFY_FULL_REPOS' = IF unshallow THEN VERIFY_FULL_REPOS \cup {Url(t)} ELSE VERIFY_FULL_REPOS
                 /\ workers' = [workers EXCEPT ![t] = At(t, "v_exists")]
                 /\ UNCHANGED <<lockVars, VERIFY_RESULTS, VERIFY_COMMIT_CACHE, VERIFY_COMMIT_CACHE_DIRTY>>
            ELSE /\ FailPop(t)
                 /\ UNCHANGED <<verify_dirs, VERIFY_FULL_REPOS>>
    /\ UNCHANGED <<execVars, pc, modules, cfgVars, lsVars, metaVars, VERIFY_COMMIT_CACHE_V2, VERIFY_FALLBACK_COMMITS,
                   VERIFY_DETECTED_BRANCHES, regVars,
                   verify_cache_file, ovrVars, sessVars, vcs_repos, next_idx, results, outVars, fb_trace>>

\* actual_commit = commit; if not _commit_exists(): ...
V_Exists(t) ==
    /\ workers[t].pc = "v_exists"
    /\ IF CommitExists(Repo(t), Commit(t))
       THEN /\ workers' = [workers EXCEPT ![t] = [At(t, "v_verify_actual") EXCEPT !.actual = Commit(t)]]
            /\ UNCHANGED <<lockVars, VERIFY_RESULTS, VERIFY_COMMIT_CACHE, VERIFY_COMMIT_CACHE_DIRTY>>
       ELSE IF RefHint(t) = NoRef
       THEN /\ workers' = [workers EXCEPT ![t] = At(t, "v_fallback")]
            /\ UNCHANGED <<lockVars, VERIFY_RESULTS, VERIFY_COMMIT_CACHE, VERIFY_COMMIT_CACHE_DIRTY>>
       ELSE FailKeep(t)
    /\ UNCHANGED <<execVars, pc, modules, cfgVars, lsVars, metaVars, VERIFY_COMMIT_CACHE_V2, VERIFY_FALLBACK_COMMITS,
                   VERIFY_DETECTED_BRANCHES, VERIFY_FULL_REPOS, regVars, verify_dirs,
                   verify_cache_file, ovrVars, sessVars, vcs_repos, next_idx, results, outVars, fb_trace>>

\* history: what origin/<branch> held when the fallback was taken from it
Trace(t, fr) ==
    [url |-> Url(t), original |-> Commit(t), fallback |-> fr.commit, branch |-> fr.branch,
     history |-> IF fr.branch \in DOMAIN fr.repo.tracked THEN fr.repo.tracked[fr.branch] ELSE << >>,
     target_date |-> FallbackTargetDate(modules[workers[t].idx].version, modules[workers[t].idx].timestamp)]

\* lines 616-620: _find_fallback_commit, called with the mutex of the URL
\* held, goes through _verify_repo_dir again only when the URL has no
\* directory yet; that second call would wait for the registry lock
Reenter(t) ==
    IF Url(t) \in VERIFY_REPO_CACHE
    THEN UNCHANGED regVars
    ELSE /\ VERIFY_REPO_LOCKS_LOCK \in {0, t}
         /\ VERIFY_REPO_CACHE' = VERIFY_REPO_CACHE \cup {Url(t)}
         /\ VERIFY_REPO_LOCKS' = VERIFY_REPO_LOCKS \cup {Url(t)}
         /\ mutexes_created' = CreateMutexes({Url(t)})
         /\ UNCHANGED VERIFY_REPO_LOCKS_LOCK

\* the commit is absent: fallback_result = _find_fallback_commit(vcs_url, version, timestamp)
V_Fallback(t) ==
    /\ workers[t].pc = "v_fallback"
    /\ Reenter(t)
    /\ \E o \in SearchOutcomes :
         LET m == modules[workers[t].idx]
             fr == _find_fallback_commit(Repo(t), upstream[Url(t)], m.version, m.timestamp, o)
         IN /\ SetRepo(t, fr.repo)
            /\ IF fr.commit # NoHash
               THEN /\ VERIFY_FALLBACK_COMMITS' = DictSet(VERIFY_FALLBACK_COMMITS, Key(t), fr.commit)
                    /\ workers' = [workers EXCEPT ![t] =
                          [At(t, "v_fallback_fetch") EXCEPT !.actual = fr.commit, !.fb_branch = fr.branch]]
                    /\ fb_trace' = fb_trace \cup {Trace(t, fr)}
                    /\ UNCHANGED <<lockVars, VERIFY_RESULTS, VERIFY_COMMIT_CACHE, VERIFY_COMMIT_CACHE_DIRTY>>
               ELSE /\ FailKeep(t)
                    /\ UNCHANGED <<VERIFY_FALLBACK_COMMITS, fb_trace>>
    /\ UNCHANGED <<execVars, pc, modules, cfgVars, lsVars, metaVars, VERIFY_COMMIT_CACHE_V2,
                   VERIFY_DETECTED_BRANCHES, VERIFY_FULL_REPOS,
                   verify_cache_file, ovrVars, sessVars, vcs_repos, next_idx, results, outVars>>

\* the fetch after a fallback was chosen, the branch registration and the existence check
V_FallbackFetch(t) ==
    /\ workers[t].pc = "v_fallback_fetch"
    /\ \E out \in CommandOutcomes :
         IF out = "ok"
         THEN LET repo1 == FetchAll(Repo(t), upstream[Url(t)], Repo(t).shallow)
              IN /\ SetRepo(t, repo1)
                 /\ VERIFY_DETECTED_BRANCHES' =
                        DictSet(VERIFY_DETECTED_BRANCHES, <<Url(t), workers[t].actual>>, workers[t].fb_branch)
                 /\ IF CommitExists(repo1, workers[t].actual)
                    THEN /\ workers' = [workers EXCEPT ![t] = At(t, "v_verify_actual")]
                         /\ UNCHANGED <<lockVars, VERIFY_RESULTS, VERIFY_COMMIT_CACHE, VERIFY_COMMIT_CACHE_DIRTY>>
                    ELSE FailKeep(t)
         ELSE /\ FailKeep(t)
              /\ UNCHANGED <<verify_dirs, VERIFY_DETECTED_BRANCHES>>
    /\ UNCHANGED <<execVars, pc, modules, cfgVars, lsVars, metaVars, VERIFY_COMMIT_CACHE_V2, VERIFY_FALLBACK_COMMITS,
                   VERIFY_FULL_REPOS, regVars,
                   verify_cache_file, ovrVars, sessVars, vcs_repos, next_idx, results, outVars, fb_trace>>

\* the end of verify_commit_accessible: outcome is "true", "fail_keep" (only
\* VERIFY_RESULTS is set), "fail_pop" (the legacy entry is dropped too) or
\* "fail_both" (both cache entries are dropped)
Finish(t, outcome, fb, det, repo, ls, tr) ==
    /\ VERIFY_FALLBACK_COMMITS' = fb
    /\ VERIFY_DETECTED_BRANCHES' = det
    /\ SetRepo(t, repo)
    /\ LS_REMOTE_CACHE' = ls.cache
    /\ LS_REMOTE_CACHE_DIRTY' = (LS_REMOTE_CACHE_DIRTY \/ ls.dirty)
    /\ fb_trace' = tr
    /\ VERIFY_RESULTS' = DictSet(VERIFY_RESULTS, Key(t), outcome = "true")
    /\ VERIFY_COMMIT_CACHE' = IF outcome \in {"fail_pop", "fail_both"} THEN DictPop(VERIFY_COMMIT_CACHE, Key(t))
                              ELSE VERIFY_COMMIT_CACHE
    /\ VERIFY_COMMIT_CACHE_V2' =
          IF outcome = "fail_both" THEN DictPop(VERIFY_COMMIT_CACHE_V2, Key(t))
          ELSE IF outcome = "true" /\ ~workers[t].cvp
          THEN DictSet(VERIFY_COMMIT_CACHE_V2, Key(t),
                       V2Entry(IF Key(t) \in DOMAIN VERIFY_COMMIT_CACHE_V2
                               THEN VERIFY_COMMIT_CACHE_V2[Key(t)].first_verified ELSE now, now, "fetch"))
          ELSE VERIFY_COMMIT_CACHE_V2
    /\ VERIFY_COMMIT_CACHE_DIRTY' =
          IF outcome \in {"fail_pop", "fail_both"} \/ (outcome = "true" /\ ~workers[t].cvp) THEN TRUE
          ELSE VERIFY_COMMIT_CACHE_DIRTY
    /\ workers' = [workers EXCEPT ![t] = Ret(t, IF outcome = "true" THEN "true" ELSE "false")]
    /\ Release(t)

NoLs == [cache |-> LS_REMOTE_CACHE, dirty |-> FALSE]

\* a tag ref: the tag is compared with the commit through git_ls_remote, and
\* whatever goes wrong in the comparison is reported and ignored
VerifyTag(t) ==
    \E out \in CommandOutcomes, fetch \in CommandOutcomes :
      LET w == upstream[Url(t)]
          actual_commit == workers[t].actual
          lr == git_ls_remote(LS_REMOTE_CACHE, clones, w, Url(t), RefHint(t), out)
          ls == [cache |-> lr.cache, dirty |-> lr.dirty]
          current_tag_commit == lr.res
          repo1 == AfterFetchRef(Repo(t), w, RefHint(t))
      IN IF current_tag_commit # NoHash /\ current_tag_commit # actual_commit
         THEN IF fetch = "ok" /\ Resolves(w, RefHint(t)) # NoHash
              THEN Finish(t, IF CommitExists(repo1, current_tag_commit) THEN "true" ELSE "fail_pop",
                          DictSet(VERIFY_FALLBACK_COMMITS, <<Url(t), actual_commit>>, current_tag_commit),
                          VERIFY_DETECTED_BRANCHES, repo1, ls, fb_trace)
              ELSE Finish(t, "true", VERIFY_FALLBACK_COMMITS, VERIFY_DETECTED_BRANCHES, Repo(t), ls, fb_trace)
         ELSE Finish(t, "true", VERIFY_FALLBACK_COMMITS, VERIFY_DETECTED_BRANCHES, Repo(t), ls, fb_trace)

\* no ref: the branch that contains the commit is looked up, and an orphaned
\* commit is replaced by the fallback
DetectBranch(t) ==
    LET w == upstream[Url(t)]
        m == modules[workers[t].idx]
        actual_commit == workers[t].actual
        branches == BranchesContaining(Repo(t), actual_commit)
    IN IF <<Url(t), actual_commit>> \in DOMAIN VERIFY_DETECTED_BRANCHES
       THEN Finish(t, "true", VERIFY_FALLBACK_COMMITS, VERIFY_DETECTED_BRANCHES, Repo(t), NoLs, fb_trace)
       ELSE \E out \in LogOutcomes :
              IF out = "timeout"
              THEN Finish(t, "fail_keep", VERIFY_FALLBACK_COMMITS, VERIFY_DETECTED_BRANCHES, Repo(t), NoLs, fb_trace)
              ELSE IF branches # << >>
              THEN Finish(t, "true", VERIFY_FALLBACK_COMMITS,
                          DictSet(VERIFY_DETECTED_BRANCHES, <<Url(t), actual_commit>>, PickBranch(branches)),
                          Repo(t), NoLs, fb_trace)
              ELSE IF actual_commit # Commit(t)
              THEN Finish(t, "fail_keep", VERIFY_FALLBACK_COMMITS, VERIFY_DETECTED_BRANCHES, Repo(t), NoLs, fb_trace)
              ELSE \E o \in SearchOutcomes :
                     LET fr == _find_fallback_commit(Repo(t), w, m.version, m.timestamp, o)
                     IN IF fr.commit = NoHash
                        THEN Finish(t, "fail_keep", VERIFY_FALLBACK_COMMITS, VERIFY_DETECTED_BRANCHES,
                                    fr.repo, NoLs, fb_trace)
                        ELSE Finish(t, IF CommitExists(fr.repo, fr.commit) THEN "true" ELSE "fail_keep",
                                    DictSet(VERIFY_FALLBACK_COMMITS, Key(t), fr.commit),
                                    DictSet(VERIFY_DETECTED_BRANCHES, <<Url(t), fr.commit>>, fr.branch),
                                    fr.repo, NoLs, fb_trace \cup {Trace(t, fr)})

\* "Now verify the actual_commit (original or fallback)"
V_VerifyActual(t) ==
    /\ workers[t].pc = "v_verify_actual"
    /\ IF ~CommitExists(Repo(t), workers[t].actual)
       THEN Finish(t, "fail_both", VERIFY_FALLBACK_COMMITS, VERIFY_DETECTED_BRANCHES, Repo(t), NoLs, fb_trace)
       ELSE IF RefHint(t) # NoRef
       THEN IF IsTagRef(RefHint(t)) THEN VerifyTag(t)
            ELSE Finish(t, "true", VERIFY_FALLBACK_COMMITS, VERIFY_DETECTED_BRANCHES, Repo(t), NoLs, fb_trace)
       ELSE DetectBranch(t)
    /\ UNCHANGED <<execVars, pc, modules, cfgVars, clones, metaVars, VERIFY_FULL_REPOS, regVars,
                   verify_cache_file, ovrVars, sessVars, vcs_repos, next_idx, results, outVars>>

\* ----------------------------------------------------------------------
\* verify_module after verify_commit_accessible returned
\* ----------------------------------------------------------------------
\* str.lower() on a hash
LowerChar(c) ==
    IF c = "A" THEN "a" ELSE IF c = "B" THEN "b" ELSE IF c = "C" THEN "c"
    ELSE IF c = "D" THEN "d" ELSE IF c = "E" THEN "e" ELSE IF c = "F" THEN "f" ELSE c

Lower(h) == [i \in 1..Len(h) |-> LowerChar(h[i])]

\* correct_commit_hash_from_ref: the peeled ref first, then the ref itself
correct_commit_hash_from_ref(cache, cl, w, vcs_url, vcs_hash, vcs_ref, out) ==
    LET first == git_ls_remote(cache, cl, w, vcs_url, Peel(vcs_ref), out)
        second == git_ls_remote(first.cache, cl, w, vcs_url, vcs_ref, out)
    IN IF vcs_ref = NoRef \/ ~IsRefsRef(vcs_ref)
       THEN [res |-> NoHash, cache |-> cache, dirty |-> FALSE]
       ELSE IF first.res # NoHash /\ Lower(first.res) # Lower(vcs_hash)
       THEN [res |-> Lower(first.res), cache |-> first.cache, dirty |-> first.dirty]
       ELSE IF second.res # NoHash /\ Lower(second.res) # Lower(vcs_hash)
       THEN [res |-> Lower(second.res), cache |-> second.cache, dirty |-> first.dirty \/ second.dirty]
       ELSE [res |-> NoHash, cache |-> second.cache, dirty |-> first.dirty \/ second.dirty]

\* vcs_repos[repo_key]['commits'][new] = vcs_repos[repo_key]['commits'].pop(old)
Rename(repos, repo_key, old, new) ==
    IF old \in DOMAIN repos[repo_key].commits
    THEN [repos EXCEPT ![repo_key].commits = DictSet(DictPop(@, old), new, repos[repo_key].commits[old])]
    ELSE repos

Result(kind, old, new) == [kind |-> kind, old |-> old, new |-> new]

\* no module count makes the loop save
NoPeriodicSave(index) == UNCHANGED <<verify_cache_file, VERIFY_COMMIT_CACHE_DIRTY, cache_writes>>

\* lines 4000-4003 of the sequential loop: save_verify_commit_cache(force=True)
\* after every SavePeriod-th module
PeriodicSave(index) ==
    IF index % SavePeriod = 0
    THEN /\ verify_cache_file' = VERIFY_COMMIT_CACHE_V2
         /\ VERIFY_COMMIT_CACHE_DIRTY' = FALSE
         /\ cache_writes' = cache_writes \cup {"verify-cache.json"}
    ELSE UNCHANGED <<verify_cache_file, VERIFY_COMMIT_CACHE_DIRTY, cache_writes>>

\* verify_module after verify_commit_accessible has returned, and in the
\* sequential loop the lines after verify_module
VM_Post(t) ==
    /\ workers[t].pc = "vm_post"
    /\ LET i == workers[t].idx
           m == modules[i]
           commit_hash == m.vcs_hash
           actual_hash == DictGet(VERIFY_FALLBACK_COMMITS, <<m.vcs_url, commit_hash>>, commit_hash)
       IN CASE workers[t].ret = "raised" ->
                 /\ results' = DictSet(results, i, Result("raised", commit_hash, NoHash))
                 /\ UNCHANGED <<modules, vcs_repos, LS_REMOTE_CACHE, LS_REMOTE_CACHE_DIRTY>>
            [] workers[t].ret = "true" ->
                 /\ modules' = [modules EXCEPT ![i].vcs_hash = actual_hash]
                 /\ vcs_repos' = IF actual_hash # commit_hash
                                 THEN Rename(vcs_repos, m.repo_key, commit_hash, actual_hash) ELSE vcs_repos
                 /\ results' = DictSet(results, i, IF actual_hash # commit_hash
                                                   THEN Result("corrected", commit_hash, actual_hash)
                                                   ELSE Result("none", commit_hash, commit_hash))
                 /\ UNCHANGED <<LS_REMOTE_CACHE, LS_REMOTE_CACHE_DIRTY>>
            [] workers[t].ret = "false" ->
                 \E out \in CommandOutcomes :
                   LET c == correct_commit_hash_from_ref(LS_REMOTE_CACHE, clones, upstream[m.vcs_url],
                                                         m.vcs_url, commit_hash, m.vcs_ref, out)
                       fixed == c.res # NoHash /\ c.res # commit_hash
                   IN /\ LS_REMOTE_CACHE' = c.cache
                      /\ LS_REMOTE_CACHE_DIRTY' = (LS_REMOTE_CACHE_DIRTY \/ c.dirty)
                      /\ modules' = IF fixed THEN [modules EXCEPT ![i].vcs_hash = c.res] ELSE modules
                      /\ vcs_repos' = IF fixed THEN Rename(vcs_repos, m.repo_key, commit_hash, c.res) ELSE vcs_repos
                      /\ results' = DictSet(results, i, IF fixed THEN Result("corrected", commit_hash, c.res)
                                                        ELSE Result("failed", commit_hash, NoHash))
    /\ workers' = [workers EXCEPT ![t] = IdleWorker]
    /\ IF verify_jobs = 0 /\ workers[t].ret # "raised"
       THEN PeriodicSave(workers[t].idx)
       ELSE UNCHANGED <<verify_cache_file, VERIFY_COMMIT_CACHE_DIRTY, cache_writes>>
    /\ UNCHANGED <<execVars, pc, cfgVars, clones, metaVars, VERIFY_RESULTS, VERIFY_COMMIT_CACHE,
                   VERIFY_COMMIT_CACHE_V2, VERIFY_FALLBACK_COMMITS, VERIFY_DETECTED_BRANCHES, VERIFY_FULL_REPOS,
                   regVars, lockVars, verify_dirs, ovrVars, vanVars, fileVars, args, discovered, run, reliable,
                   probe, first_out, interrupted, next_idx, outVars, fb_trace>>

\* ----------------------------------------------------------------------
\* generate_recipe after the pool: corrections, failures, emission
\* ----------------------------------------------------------------------
AllIdle == \A t \in 1..MaxJobs : workers[t].pc = "idle"

FirstIndexOf(mods, path, version) ==
    LET hits == {j \in 1..Len(mods) : mods[j].module_path = path /\ mods[j].version = version}
    IN IF hits = {} THEN 0 ELSE CHOOSE j \in hits : \A k \in hits : j <= k

RECURSIVE ApplyCorrections(_, _, _)
ApplyCorrections(mods, repos, i) ==
    IF i > Len(mods) THEN [mods |-> mods, repos |-> repos]
    ELSE IF i \in DOMAIN results /\ results[i].kind = "corrected"
    THEN LET j == FirstIndexOf(mods, modules[i].module_path, modules[i].version)
         IN IF j = 0 THEN ApplyCorrections(mods, repos, i + 1)
            ELSE ApplyCorrections([mods EXCEPT ![j].vcs_hash = results[i].new],
                                  Rename(repos, mods[j].repo_key, results[i].old, results[i].new), i + 1)
    ELSE ApplyCorrections(mods, repos, i + 1)

Collect ==
    /\ pc = "verify"
    /\ AllIdle
    /\ next_idx > Len(modules) \/ Raised
    /\ \E validate \in ValidateArg(BOOLEAN) :
         LET r == ApplyCorrections(modules, vcs_repos, 1)
             corrected == \E i \in DOMAIN results : results[i].kind = "corrected"
             failed == \E i \in DOMAIN results : results[i].kind = "failed"
         IN /\ validate_only' = validate
            /\ IF Raised
               THEN /\ gen_result' = "raised"
                    /\ pc' = "done"
                    /\ UNCHANGED <<modules, vcs_repos, VERIFY_CORRECTIONS_APPLIED>>
               ELSE /\ modules' = r.mods
                    /\ vcs_repos' = r.repos
                    /\ VERIFY_CORRECTIONS_APPLIED' = (VERIFY_CORRECTIONS_APPLIED \/ corrected)
                    /\ gen_result' = IF failed THEN "false" ELSE IF validate THEN "true" ELSE "none"
                    /\ pc' = IF failed \/ validate THEN "done" ELSE "emit"
    /\ UNCHANGED <<execVars, verify_jobs, skip_verify, upstream, now, VERIFY_CACHE_MAX_AGE_DAYS, lsVars, metaVars, verVars,
                   regVars, lockVars, verify_dirs, verify_cache_file, ovrVars, sessVars, poolVars,
                   src_uri_entries, modules_data, files_written, fb_trace>>

\* the branch parameter of a SRC_URI entry: ";nobranch=1" is the empty name
BranchParam(commit_info, git_url, commit_hash) ==
    IF commit_info.ref_hint # NoRef
    THEN IF IsTagRef(commit_info.ref_hint) THEN ""
         ELSE IF IsHeadRef(commit_info.ref_hint) THEN commit_info.ref_hint[3]
         ELSE ""
    ELSE DictGet(VERIFY_DETECTED_BRANCHES, <<git_url, commit_hash>>, "")

SrcUriEntry(repos, k, h) ==
    [url |-> repos[k].url, rev |-> h, branch |-> BranchParam(repos[k].commits[h], repos[k].url, h),
     shallow |-> repos[k].commits[h].ref_hint # NoRef,
     destsuffix |-> repos[k].commits[h].commit_sha,
     refs |-> {modules[i].vcs_ref : i \in SeqToSet(repos[k].commits[h].modules)}]

SrcUriEntries(repos) ==
    UNION {{SrcUriEntry(repos, k, h) : h \in DOMAIN repos[k].commits} : k \in DOMAIN repos}

HasCommitInfo(m) == m.vcs_hash \in DOMAIN vcs_repos[m.repo_key].commits

MetaValue(m) ==
    [vcs_url |-> m.vcs_url, commit |-> m.vcs_hash, timestamp |-> m.timestamp, subdir |-> m.subdir, ref |-> m.vcs_ref]

RECURSIVE UpdateMetadata(_, _, _)
UpdateMetadata(cache, mods, n) ==
    IF n = 0 THEN cache
    ELSE DictSet(UpdateMetadata(cache, mods, n - 1), <<mods[n].module_path, mods[n].version>>, MetaValue(mods[n]))

\* the identifier recomputed from the module's final hash, not the one the
\* commit entry kept from the first pass
ModuleDataRekeyed(m) ==
    [module |-> m.module_path, version |-> m.version,
     vcs_hash |-> commit_cache_key(m.repo_key, m.vcs_hash),
     timestamp |-> m.timestamp, subdir |-> m.subdir, vcs_ref |-> m.vcs_ref]

ModuleData(m) ==
    [module |-> m.module_path, version |-> m.version,
     vcs_hash |-> vcs_repos[m.repo_key].commits[m.vcs_hash].commit_sha,
     timestamp |-> m.timestamp, subdir |-> m.subdir, vcs_ref |-> m.vcs_ref]

Emit ==
    /\ pc = "emit"
    /\ LET bad == {i \in 1..Len(modules) : ~HasCommitInfo(modules[i])}
           stop == IF bad = {} THEN Len(modules) ELSE (CHOOSE i \in bad : \A j \in bad : i <= j) - 1
           cache1 == UpdateMetadata(MODULE_METADATA_CACHE, modules, stop)
       IN /\ src_uri_entries' = SrcUriEntries(vcs_repos)
          /\ MODULE_METADATA_CACHE' = cache1
          /\ MODULE_METADATA_CACHE_DIRTY' = (MODULE_METADATA_CACHE_DIRTY \/ cache1 # MODULE_METADATA_CACHE)
          /\ modules_data' = [i \in 1..stop |-> ModuleData(modules[i])]
          /\ files_written' = (bad = {})
          /\ gen_result' = IF bad = {} THEN "true" ELSE "raised"
    /\ pc' = "done"
    /\ UNCHANGED <<execVars, modules, cfgVars, lsVars, verVars, regVars, lockVars, verify_dirs, verify_cache_file, ovrVars, sessVars,
                   vcs_repos, poolVars, VERIFY_CORRECTIONS_APPLIED, fb_trace>>

\* ----------------------------------------------------------------------
\* The metadata resolver.  Its operators thread a record st of the state a
\* call reads and writes: mods (the module list), meta and metad
\* (MODULE_METADATA_CACHE and its dirty flag), ls and lsd (LS_REMOTE_CACHE
\* and its dirty flag), fpaths, fentries, skipped (FAILED_MODULE_PATHS,
\* FAILED_MODULE_ENTRIES, SKIPPED_MODULES).  env holds what the environment
\* answers during one call: net (the network), go (go list), vanity (the
\* go-get meta tag).  No repository override is configured.
\* ----------------------------------------------------------------------
WorldAt(url) == upstream[_normalize_url(url)]

\* the name a short commit has when it is passed to git_ls_remote as a ref
ShortName(short) ==
    CASE short = SA -> "aaaaaaaaaaaa"
      [] short = Prefix(CB, ShortHashLen) -> "bbbbbbbbbbbb"
      [] OTHER -> "cccccccccccc"

\* part.startswith('v') and part[1:].isdigit()
IsMajorSuffix(part) == part \in {"v0", "v1", "v2", "v3", "v4", "v5", "v6", "v7", "v8", "v9"}

StripTrailingMajor(subdir_parts) ==
    IF subdir_parts # << >> /\ IsMajorSuffix(subdir_parts[Len(subdir_parts)])
    THEN SubSeq(subdir_parts, 1, Len(subdir_parts) - 1) ELSE subdir_parts

MetaEntry(url, commit, timestamp, subdir, ref) ==
    [vcs_url |-> url, commit |-> commit, timestamp |-> timestamp, subdir |-> subdir, ref |-> ref]

update_metadata_cache(st, path, version, url, commit, timestamp, subdir, ref) ==
    IF <<path, version>> \in DOMAIN st.meta /\ st.meta[<<path, version>>] = MetaEntry(url, commit, timestamp, subdir, ref)
    THEN st
    ELSE [st EXCEPT !.meta = DictSet(@, <<path, version>>, MetaEntry(url, commit, timestamp, subdir, ref)),
                    !.metad = TRUE]

CachedRecord(entry, path, version) ==
    [module_path |-> path, version |-> version, vcs_url |-> entry.vcs_url, vcs_hash |-> entry.commit,
     vcs_ref |-> entry.ref, subdir |-> entry.subdir, repo_key |-> << >>, commit_sha |-> << >>,
     timestamp |-> IF entry.timestamp # NoTs THEN entry.timestamp ELSE derive_timestamp_from_version(version)]

\* get_cached_metadata: << >> for None, else a one-element sequence
get_cached_metadata(meta, path, version) ==
    IF <<path, version>> \notin DOMAIN meta THEN << >>
    ELSE <<CachedRecord(meta[<<path, version>>], path, version)>>

\* the ls-remote cache and its dirty flag after a call that returned r
WithLs(st, r) == [st EXCEPT !.ls = r.cache, !.lsd = r.dirty]

\* git_ls_remote over the attempts <<url, ref, kind>>, in order, up to the first commit
RECURSIVE TryLsRemote(_, _, _, _)
RECURSIVE TryNext(_, _, _, _)
TryNext(r, dirty, attempts, net) ==
    IF r.res # NoHash
    THEN [commit |-> r.res, kind |-> Head(attempts)[3], cache |-> r.cache, dirty |-> dirty \/ r.dirty]
    ELSE TryLsRemote(r.cache, dirty \/ r.dirty, Tail(attempts), net)

TryLsRemote(cache, dirty, attempts, net) ==
    IF attempts = << >> THEN [commit |-> NoHash, kind |-> "", cache |-> cache, dirty |-> dirty]
    ELSE TryNext(git_ls_remote(cache, clones, WorldAt(Head(attempts)[1]), Head(attempts)[1], Head(attempts)[2], net),
                 dirty, attempts, net)

CandidateUrls(vcs_url) == IF EndsWithDotGit(vcs_url) THEN <<vcs_url>> ELSE <<vcs_url, DotGit(vcs_url)>>

LookupAttempts(url, version, preferred_ref) ==
    (IF preferred_ref # NoRef THEN <<<<url, preferred_ref, "ref">>>> ELSE << >>)
        \o (IF parse_pseudo_version_tag(version) # << >>
            THEN <<<<url, <<ShortName(parse_pseudo_version_tag(version)[2])>>, "short">>>>
            ELSE <<<<url, TagRef(version.name), "tag">>, <<url, <<version.name>>, "tag">>>>)

RECURSIVE AllAttempts(_, _, _)
AllAttempts(urls, version, preferred_ref) ==
    IF urls = << >> THEN << >>
    ELSE LookupAttempts(Head(urls), version, preferred_ref) \o AllAttempts(Tail(urls), version, preferred_ref)

RECURSIVE ResolvePseudoAt(_, _, _, _)
RECURSIVE ResolvePseudoNext(_, _, _, _, _)
ResolvePseudoNext(commit, urls, ts, short_commit, net) ==
    IF commit # NoHash THEN commit ELSE ResolvePseudoAt(Tail(urls), ts, short_commit, net)

ResolvePseudoAt(urls, ts, short_commit, net) ==
    IF urls = << >> THEN NoHash
    ELSE ResolvePseudoNext(resolve_pseudo_version_commit(WorldAt(Head(urls)), ts, short_commit, net),
                           urls, ts, short_commit, net)

\* lines 2944-2960: no ref gave a commit
LookupCloned(r, cloned, version) ==
    IF cloned # NoHash
    THEN [commit |-> cloned, cache |-> r.cache, dirty |-> r.dirty,
          timestamp |-> derive_timestamp_from_version(version)]
    ELSE [commit |-> NoHash, cache |-> r.cache, dirty |-> r.dirty,
          timestamp |-> IF parse_pseudo_version_tag(version) # << >>
                        THEN derive_timestamp_from_version(version) ELSE NoTs]

\* lines 2926-2942: r is the outcome of the ls-remote attempts
LookupResult(r, vcs_url, version, net) ==
    IF r.commit # NoHash
    THEN [commit |-> r.commit, cache |-> r.cache, dirty |-> r.dirty,
          timestamp |-> IF r.kind = "short" THEN derive_timestamp_from_version(version) ELSE Epoch]
    ELSE IF parse_pseudo_version_tag(version) # << >>
    THEN LookupCloned(r, ResolvePseudoAt(CandidateUrls(vcs_url), parse_pseudo_version_tag(version)[1],
                                         parse_pseudo_version_tag(version)[2], net), version)
    ELSE LookupCloned(r, NoHash, version)

\* _lookup_commit_for_version: commit and timestamp (NoHash, NoTs for None)
_lookup_commit_for_version(cache, dirty, vcs_url, version, preferred_ref, net) ==
    LookupResult(TryLsRemote(cache, dirty, AllAttempts(CandidateUrls(vcs_url), version, preferred_ref), net),
                 vcs_url, version, net)

\* what go list -m -json answers: nothing, or an Origin
NoInfo == << >>

\* the URL go list reports for a module path
GoListUrl(parts) ==
    IF parts = Pshort THEN U2
    ELSE IF parts = Pgopkg THEN U1
    ELSE IF SubSeq(parts, 1, 3) = Pvanbase THEN U2 ELSE BaseUrl(SubSeq(parts, 1, 3))

\* the ref of the Origin: the tag of a tagged version, the default branch of a pseudo-version
GoListRef(w, version) ==
    IF parse_pseudo_version_tag(version) = << >> THEN TagRef(version.name)
    ELSE IF w.head # "" THEN HeadRef(w.head) ELSE NoRef

\* fetch_go_metadata: go list -m -json, then go mod download and a second try
fetch_go_metadata(parts, version, env) ==
    IF ~env.go THEN NoInfo
    ELSE <<[vcs_url |-> GoListUrl(parts), commit |-> CA, timestamp |-> NoTs, subdir |-> NoSubdir,
            vcs_ref |-> GoListRef(WorldAt(GoListUrl(parts)), version)]>>

Envs == [net : {"ok", "fail"}, go : BOOLEAN, vanity : BOOLEAN]

FinalTimestamp(l, timestamp_hint) == IF l.timestamp # NoTs THEN l.timestamp ELSE timestamp_hint

TimestampHint(info, version) ==
    IF info.timestamp # NoTs THEN info.timestamp ELSE derive_timestamp_from_version(version)

RECURSIVE ResolveCandidates(_, _, _, _, _, _, _)
RECURSIVE CandidateResult(_, _, _, _, _, _, _, _)
\* lines 3148-3168: l is what _lookup_commit_for_version returned for the first candidate
CandidateResult(st, l, path, version, info, subdir_hint, candidate_urls, net) ==
    IF l.commit # NoHash
    THEN [rec |-> <<Record(path, version, Head(candidate_urls), l.commit, info.vcs_ref, subdir_hint,
                           FinalTimestamp(l, TimestampHint(info, version)))>>,
          st |-> update_metadata_cache(WithLs(st, l), path, version, Head(candidate_urls), l.commit,
                                       FinalTimestamp(l, TimestampHint(info, version)), subdir_hint, info.vcs_ref)]
    ELSE ResolveCandidates(WithLs(st, l), path, version, info, subdir_hint, Tail(candidate_urls), net)

ResolveCandidates(st, path, version, info, subdir_hint, candidate_urls, net) ==
    IF candidate_urls = << >> THEN [rec |-> << >>, st |-> st]
    ELSE CandidateResult(st, _lookup_commit_for_version(st.ls, st.lsd, Head(candidate_urls), version,
                                                        info.vcs_ref, net),
                         path, version, info, subdir_hint, candidate_urls, net)

GoInfoCandidates(info, fallback_url) ==
    (IF info.vcs_url # NoUrl THEN <<info.vcs_url>> ELSE << >>)
        \o (IF fallback_url # NoUrl /\ fallback_url # info.vcs_url THEN <<fallback_url>> ELSE << >>)

\* resolve_with_go_info(go_info, fallback_url, fallback_subdir)
resolve_with_go_info(st, path, version, go_info, fallback_url, fallback_subdir, net) ==
    IF go_info = NoInfo THEN [rec |-> << >>, st |-> st]
    ELSE ResolveCandidates(st, path, version, go_info[1],
                           IF go_info[1].subdir # NoSubdir THEN go_info[1].subdir ELSE fallback_subdir,
                           GoInfoCandidates(go_info[1], fallback_url), net)

\* query_vanity_url: the cached answer, else the repository the go-import
\* meta tag names (None, here NoUrl, when the query fails)
query_vanity_url(cache, parts, env) ==
    IF parts \in DOMAIN cache THEN cache[parts]
    ELSE IF env.vanity THEN U2 ELSE NoUrl

\* lines 2545-2553: the answer of a query is cached, a failure too
CacheVanity(st, parts, env) ==
    IF parts[1] = "github.com" \/ parts \in DOMAIN st.vanity THEN st
    ELSE [st EXCEPT !.vanity = DictSet(@, parts, query_vanity_url(st.vanity, parts, env)), !.vanityd = TRUE]

\* part == vcs_repo_name or part in vcs_repo_name or vcs_repo_name.endswith(part)
PartOfRepoName(part, name) ==
    \/ part = name
    \/ name = "etcd" /\ part \in {"c", "d"}

RepoBoundary(vcs_url, module_parts) ==
    {i \in 1..Len(module_parts) : PartOfRepoName(module_parts[i], RepoName(vcs_url))}

Min(S) == CHOOSE x \in S : \A y \in S : x <= y

_recalculate_subdir_from_vanity(vcs_url, module_parts, current_subdir) ==
    IF vcs_url = NoUrl THEN current_subdir
    ELSE IF RepoBoundary(vcs_url, module_parts) # {} /\ Min(RepoBoundary(vcs_url, module_parts)) < Len(module_parts)
    THEN StripTrailingMajor(SubSeq(module_parts, Min(RepoBoundary(vcs_url, module_parts)) + 1, Len(module_parts)))
    ELSE IF Len(module_parts) <= 3 THEN NoSubdir
    ELSE current_subdir

_record_skipped_module(st, path, version, reason) ==
    [st EXCEPT !.skipped = DictSet(@, <<path, version>>, reason)]

\* lines 3113-3117: a cached tagged version is looked up again
CachedLookup(st, cached, l) ==
    IF l.commit = NoHash \/ Lower(l.commit) # Lower(cached[1].vcs_hash)
    THEN [cached |-> << >>, st |-> WithLs(st, l)]
    ELSE [cached |-> cached, st |-> WithLs(st, l)]

\* the cached entry is taken as it is
CachedUnchecked(st, cached, version, net) == [cached |-> cached, st |-> st]

\* lines 3103-3117: the cached entry is dropped when it contradicts the version
CachedChecked(st, cached, version, net) ==
    IF cached = << >> THEN [cached |-> << >>, st |-> st]
    ELSE IF parse_pseudo_version_tag(version) # << >>
    THEN IF cached[1].vcs_hash # NoHash /\ ~StartsWith(cached[1].vcs_hash, parse_pseudo_version_tag(version)[2])
         THEN [cached |-> << >>, st |-> st]
         ELSE [cached |-> cached, st |-> st]
    ELSE CachedLookup(st, cached, _lookup_commit_for_version(st.ls, st.lsd, cached[1].vcs_url, version,
                                                             cached[1].vcs_ref, net))

CachedCheck(st, path, version, net) ==
    CachedChecked(st, get_cached_metadata(st.meta, path, version), version, net)

\* lines 3238-3249: the subdirectory of a path of more than three components
DefaultSubdir(parts) ==
    IF Len(parts) > 3 THEN StripTrailingMajor(SubSeq(parts, 4, Len(parts))) ELSE NoSubdir

\* lines 3264-3269
VanityRepo(parts, vanity_repo) ==
    IF vanity_repo # NoUrl
    THEN [vcs_url |-> vanity_repo, vanity_repo |-> vanity_repo,
          subdir |-> _recalculate_subdir_from_vanity(vanity_repo, parts, DefaultSubdir(parts))]
    ELSE [vcs_url |-> BaseUrl(SubSeq(parts, 1, 3)), vanity_repo |-> NoUrl, subdir |-> DefaultSubdir(parts)]

\* lines 3238-3269: subdirectory and repository of a path of three or more
\* components outside gopkg.in and golang.org/x
DeriveRepo(cache, parts, env) ==
    IF parts[1] = "github.com"
    THEN [vcs_url |-> BaseUrl(SubSeq(parts, 1, 3)), vanity_repo |-> NoUrl, subdir |-> DefaultSubdir(parts)]
    ELSE VanityRepo(parts, query_vanity_url(cache, parts, env))

AdjustCached(st, path, version, cached, adjusted_subdir) ==
    IF adjusted_subdir # cached.subdir
    THEN [rec |-> <<[cached EXCEPT !.subdir = adjusted_subdir]>>,
          st |-> update_metadata_cache(st, path, version, cached.vcs_url, cached.vcs_hash, cached.timestamp,
                                       adjusted_subdir, cached.vcs_ref)]
    ELSE [rec |-> <<cached>>, st |-> st]

\* lines 3271-3290
ReturnCached(st, path, version, cached, vanity_repo) ==
    IF vanity_repo # NoUrl
    THEN AdjustCached(st, path, version, cached, _recalculate_subdir_from_vanity(cached.vcs_url, path, cached.subdir))
    ELSE [rec |-> <<cached>>, st |-> st]

\* lines 3296-3304
GoInfoOutcome(result, path, version) ==
    IF result.rec # << >> THEN result
    ELSE [rec |-> << >>,
          st |-> _record_skipped_module([result.st EXCEPT !.fpaths = @ \cup {path}], path, version,
                                        "no repository metadata from go.sum/go list")]

ResolvedTimestamp(l, version) ==
    IF l.timestamp # NoTs THEN l.timestamp ELSE derive_timestamp_from_version(version)

\* lines 3293-3326: l is what _lookup_commit_for_version returned for the derived URL
LookupOutcome(st, l, path, version, d, env) ==
    IF l.commit = NoHash
    THEN GoInfoOutcome(resolve_with_go_info(WithLs(st, l), path, version, fetch_go_metadata(path, version, env),
                                            d.vcs_url, d.subdir, env.net),
                       path, version)
    ELSE [rec |-> <<Record(path, version, d.vcs_url, l.commit, NoRef, d.subdir, ResolvedTimestamp(l, version))>>,
          st |-> update_metadata_cache(WithLs(st, l), path, version, d.vcs_url, l.commit,
                                       ResolvedTimestamp(l, version), d.subdir, NoRef)]

LookupOrFail(st, path, version, d, env) ==
    LookupOutcome(st, _lookup_commit_for_version(st.ls, st.lsd, d.vcs_url, version, NoRef, env.net),
                  path, version, d, env)

\* c is the cached entry after its check, d the derived repository
ResolveFrom(c, d, path, version, env) ==
    IF c.cached # << >> /\ c.cached[1].vcs_url # NoUrl /\ c.cached[1].vcs_hash # NoHash
    THEN ReturnCached(c.st, path, version, c.cached[1], d.vanity_repo)
    ELSE LookupOrFail(c.st, path, version, d, env)

resolve_module_metadata(st, path, version, env) ==
    ResolveFrom(CachedCheck(CacheVanity(st, path, env), path, version, env.net),
                DeriveRepo(st.vanity, path, env), path, version, env)

\* ----------------------------------------------------------------------
\* _execute: the go.sum loops.  discovered_keys and modules_by_path are
\* kept in step with the module list by every append, so they are read
\* off the list.
\* ----------------------------------------------------------------------
DiscoveredKeys(mods) == {KeyOf(mods[i]) : i \in 1..Len(mods)}

PathsSeen(mods) == {mods[i].module_path : i \in 1..Len(mods)}

\* modules_by_path[path][0]
FirstByPath(mods, path) == mods[Min({i \in 1..Len(mods) : mods[i].module_path = path})]

DriverState ==
    [mods |-> modules, meta |-> MODULE_METADATA_CACHE, metad |-> MODULE_METADATA_CACHE_DIRTY,
     ls |-> LS_REMOTE_CACHE, lsd |-> LS_REMOTE_CACHE_DIRTY, fpaths |-> FAILED_MODULE_PATHS,
     fentries |-> FAILED_MODULE_ENTRIES, skipped |-> SKIPPED_MODULES,
     vanity |-> VANITY_URL_CACHE, vanityd |-> VANITY_URL_CACHE_DIRTY, out |-> "none"]

\* the line at which an iteration of the loop over the source-required keys
\* ended, named after what it prints
Ended(st, line) == [st EXCEPT !.out = line]

\* version.split('+')[0] as a tag name
TagOf(version) == IF parse_pseudo_version_tag(version) = << >> THEN version.name ELSE "pseudo"

\* git_ls_remote(vcs_url, f"refs/tags/{tag}") or git_ls_remote(vcs_url, tag)
LsRemoteTag(st, vcs_url, tag, net) ==
    TryLsRemote(st.ls, st.lsd, <<<<vcs_url, TagRef(tag), "tagref">>, <<vcs_url, <<tag>>, "tagname">>>>, net)

\* lines 1811-1822: one copy per record of the replacement, under the original key
RECURSIVE ReplaceCopies(_, _, _, _, _, _)
ReplaceCopies(mods, i, module_path, version, resolved_path, resolved_version) ==
    IF i > Len(mods) THEN mods
    ELSE IF KeyOf(mods[i]) = <<resolved_path, resolved_version>>
    THEN ReplaceCopies(Append(mods, [mods[i] EXCEPT !.module_path = module_path, !.version = version]), i + 1,
                       module_path, version, resolved_path, resolved_version)
    ELSE ReplaceCopies(mods, i + 1, module_path, version, resolved_path, resolved_version)

RECURSIVE MonorepoSynthesis(_, _, _, _, _, _, _)
RECURSIVE MonorepoTry(_, _, _, _, _, _, _, _)
\* lines 1866-1891: r is the tag looked up in the repository of the base module
MonorepoTry(st, r, module_path, version, resolved_path, resolved_version, i, net) ==
    IF r.commit # NoHash
    THEN [handled |-> TRUE,
          st |-> [Ended(WithLs(st, r), "monorepo submodule") EXCEPT !.mods =
                    Append(@, Record(module_path, version, FirstByPath(st.mods, SubSeq(resolved_path, 1, i)).vcs_url,
                                     r.commit,
                                     IF r.kind = "tagref" THEN TagRef(TagOf(resolved_version))
                                     ELSE <<TagOf(resolved_version)>>,
                                     SubSeq(resolved_path, i + 1, Len(resolved_path)),
                                     derive_timestamp_from_version(resolved_version)))]]
    ELSE MonorepoSynthesis(WithLs(st, r), module_path, version, resolved_path, resolved_version, i - 1, net)

\* lines 1857-1864: the base candidates path_segments[:i], i = len-1 .. 3
MonorepoSynthesis(st, module_path, version, resolved_path, resolved_version, i, net) ==
    IF i < 3 THEN [handled |-> FALSE, st |-> st]
    ELSE IF SubSeq(resolved_path, 1, i) \notin PathsSeen(st.mods)
    THEN MonorepoSynthesis(st, module_path, version, resolved_path, resolved_version, i - 1, net)
    ELSE MonorepoTry(st, LsRemoteTag(st, FirstByPath(st.mods, SubSeq(resolved_path, 1, i)).vcs_url,
                                     TagOf(resolved_version), net),
                     module_path, version, resolved_path, resolved_version, i, net)

\* lines 1920-1939 and 2023-2038: the record made from the sibling's repository
SiblingRecord(st, commit, module_path, version, ref) ==
    IF commit = NoHash THEN [handled |-> FALSE, st |-> st]
    ELSE [handled |-> TRUE,
          st |-> [Ended(update_metadata_cache(st, module_path, version, FirstByPath(st.mods, module_path).vcs_url,
                                              commit, derive_timestamp_from_version(version),
                                              FirstByPath(st.mods, module_path).subdir, NoRef), "sibling")
                  EXCEPT !.mods = Append(@, Record(module_path, version, FirstByPath(st.mods, module_path).vcs_url,
                                                   commit, ref, FirstByPath(st.mods, module_path).subdir,
                                                   derive_timestamp_from_version(version)))]]

SiblingFromTag(st, r, module_path, version) == SiblingRecord(WithLs(st, r), r.commit, module_path, version, NoRef)

\* lines 1898-1939: the repository of another version of the same path
SiblingResolve(st, module_path, version, net) ==
    IF module_path \notin PathsSeen(st.mods) THEN [handled |-> FALSE, st |-> st]
    ELSE IF parse_pseudo_version_tag(version) # << >>
    THEN SiblingRecord(st, resolve_pseudo_version_commit(WorldAt(FirstByPath(st.mods, module_path).vcs_url),
                                                         parse_pseudo_version_tag(version)[1],
                                                         parse_pseudo_version_tag(version)[2], net),
                       module_path, version, NoRef)
    ELSE SiblingFromTag(st, LsRemoteTag(st, FirstByPath(st.mods, module_path).vcs_url, TagOf(version), net),
                        module_path, version)

\* lines 1945-1964
IsMonorepoRoot(mods, module_path) ==
    \/ \E existing_path \in PathsSeen(mods) :
        Len(existing_path) > Len(module_path) /\ StartsWith(existing_path, module_path)
    \/ /\ Len(module_path) >= 3
       /\ module_path[Len(module_path)] = "v3"
       /\ \E existing_path \in PathsSeen(mods) :
            \E k \in 2..(Len(existing_path) - 1) : existing_path[k] = "etcd"

\* lines 1941-1973
AfterSibling(sib, module_path, version) ==
    IF sib.handled THEN sib.st
    ELSE IF IsMonorepoRoot(sib.st.mods, module_path) THEN Ended(sib.st, "monorepo root")
    ELSE IF module_path \in PathsSeen(sib.st.mods)
    THEN [sib.st EXCEPT !.fpaths = @ \cup {module_path}, !.fentries = @ \cup {<<module_path, version>>},
                        !.out = "failed"]
    ELSE Ended(sib.st, "indirect-only")

AfterMonorepo(mono, module_path, version, net) ==
    IF mono.handled THEN mono.st
    ELSE AfterSibling(SiblingResolve(mono.st, module_path, version, net), module_path, version)

\* lines 1837-1973: resolve_module_metadata returned None
Unresolved(st, module_path, version, resolved_path, resolved_version, net) ==
    IF resolved_path # module_path
    THEN AfterMonorepo(MonorepoSynthesis(st, module_path, version, resolved_path, resolved_version,
                                         Len(resolved_path) - 1, net),
                       module_path, version, net)
    ELSE AfterSibling(SiblingResolve(st, module_path, version, net), module_path, version)

NoVersion == TagVersion("")

AfterResolveKeepResolved(r, module_path, version, resolved_path, resolved_version, net) ==
    IF r.rec # << >>
    THEN [r.st EXCEPT !.mods = Append(@, r.rec[1]), !.out = "resolved"]
    ELSE Unresolved(r.st, module_path, version, resolved_path, resolved_version, net)

\* lines 1825-1836 and the else branch: r is what resolve_module_metadata returned
AfterResolve(r, module_path, version, resolved_path, resolved_version, net) ==
    IF r.rec # << >>
    THEN [r.st EXCEPT !.mods = Append(@, [r.rec[1] EXCEPT !.module_path = module_path, !.version = version]),
                      !.out = "resolved"]
    ELSE Unresolved(r.st, module_path, version, resolved_path, resolved_version, net)

\* lines 1811-1824
ResolveReplaced(st, module_path, version, resolved_path, resolved_version, copy, env) ==
    AfterResolve(resolve_module_metadata(
                     IF copy THEN [st EXCEPT !.mods = ReplaceCopies(@, 1, module_path, version,
                                                                    resolved_path, resolved_version)]
                     ELSE st,
                     resolved_path, resolved_version, env),
                 module_path, version, resolved_path, resolved_version, env.net)

\* lines 1792-1973: one iteration of the loop over sorted(go_sum_modules_with_source)
SourceIteration(st, module_path, version, env) ==
    IF module_path \in st.fpaths THEN Ended(st, "previous failure")
    ELSE IF <<module_path, version>> \in DiscoveredKeys(st.mods) THEN Ended(st, "discovered")
    ELSE IF module_path \in DOMAIN go_mod_replaces /\ go_mod_replaces[module_path][2] # NoVersion
    THEN ResolveReplaced(st, module_path, version, go_mod_replaces[module_path][1], go_mod_replaces[module_path][2],
                         <<go_mod_replaces[module_path][1], go_mod_replaces[module_path][2]>>
                             \in DiscoveredKeys(st.mods),
                         env)
    ELSE ResolveReplaced(st, module_path, version, module_path, version, FALSE, env)

\* the local vcs_ref after the tagged branch, lines 2016-2021
TaggedRef(r, version) == [bound |-> TRUE, val |-> IF r.kind = "tagref" THEN TagRef(TagOf(version)) ELSE NoRef]

\* lines 2023-2042; building the record reads vcs_ref, and while it is
\* unbound that raises UnboundLocalError, caught at line 2045 after the
\* metadata cache has been updated
IndirectRecord(st, commit, vref, module_path, version) ==
    IF commit = NoHash THEN [st |-> st, vref |-> vref]
    ELSE IF ~vref.bound
    THEN [st |-> update_metadata_cache(st, module_path, version, FirstByPath(st.mods, module_path).vcs_url, commit,
                                       derive_timestamp_from_version(version),
                                       FirstByPath(st.mods, module_path).subdir, NoRef),
          vref |-> vref]
    ELSE [st |-> SiblingRecord(st, commit, module_path, version, vref.val).st, vref |-> vref]

IndirectFromTag(st, r, module_path, version) ==
    IndirectRecord(WithLs(st, r), r.commit, TaggedRef(r, version), module_path, version)

\* lines 1987-2047: one iteration of the loop over sorted(go_sum_indirect_only);
\* vref is the local vcs_ref, which only the tagged branch assigns
IndirectIteration(st, vref, module_path, version, net) ==
    IF <<module_path, version>> \in DiscoveredKeys(st.mods) THEN [st |-> st, vref |-> vref]
    ELSE IF module_path \notin PathsSeen(st.mods) THEN [st |-> st, vref |-> vref]
    ELSE IF parse_pseudo_version_tag(version) # << >>
    THEN IndirectRecord(st, resolve_pseudo_version_commit(WorldAt(FirstByPath(st.mods, module_path).vcs_url),
                                                          parse_pseudo_version_tag(version)[1],
                                                          parse_pseudo_version_tag(version)[2], net),
                        vref, module_path, version)
    ELSE IndirectFromTag(st, LsRemoteTag(st, FirstByPath(st.mods, module_path).vcs_url, TagOf(version), net),
                         module_path, version)

SetIndirect(r) ==
    /\ modules' = r.st.mods
    /\ MODULE_METADATA_CACHE' = r.st.meta
    /\ MODULE_METADATA_CACHE_DIRTY' = r.st.metad
    /\ LS_REMOTE_CACHE' = r.st.ls
    /\ LS_REMOTE_CACHE_DIRTY' = r.st.lsd
    /\ FAILED_MODULE_PATHS' = r.st.fpaths
    /\ FAILED_MODULE_ENTRIES' = r.st.fentries
    /\ SKIPPED_MODULES' = r.st.skipped
    /\ vcs_ref_local' = r.vref

SetDriverState(st) ==
    /\ modules' = st.mods
    /\ MODULE_METADATA_CACHE' = st.meta
    /\ MODULE_METADATA_CACHE_DIRTY' = st.metad
    /\ LS_REMOTE_CACHE' = st.ls
    /\ LS_REMOTE_CACHE_DIRTY' = st.lsd
    /\ FAILED_MODULE_PATHS' = st.fpaths
    /\ FAILED_MODULE_ENTRIES' = st.fentries
    /\ SKIPPED_MODULES' = st.skipped
    /\ VANITY_URL_CACHE' = st.vanity
    /\ VANITY_URL_CACHE_DIRTY' = st.vanityd

\* the iteration's effect, and the line it ended at
SetSource(st, module_path, version, env) ==
    /\ SetDriverState(st)
    /\ probe' = [op |-> "source", path |-> module_path, version |-> version, env |-> env, out |-> st.out]

SourceStep ==
    /\ pc = "source"
    /\ src_i <= Len(go_sum_modules_with_source)
    /\ \E env \in Envs :
         SetSource(SourceIteration(DriverState, go_sum_modules_with_source[src_i][1],
                                   go_sum_modules_with_source[src_i][2], env),
                   go_sum_modules_with_source[src_i][1], go_sum_modules_with_source[src_i][2], env)
    /\ src_i' = src_i + 1
    /\ UNCHANGED <<pc, sumVars, ind_i, vcs_ref_local, exit_code, cfgVars, clones, verVars, regVars, lockVars,
                   verify_dirs, verify_cache_file, ovrVars, fileVars, args, discovered, run, reliable, first_out,
                   cache_writes, interrupted, vcs_repos, poolVars, outVars, fb_trace>>

IndirectStep ==
    /\ pc = "source"
    /\ src_i > Len(go_sum_modules_with_source)
    /\ ind_i <= Len(go_sum_indirect_only)
    /\ \E net \in CommandOutcomes :
         /\ SetIndirect(IndirectIteration(DriverState, vcs_ref_local, go_sum_indirect_only[ind_i][1],
                                          go_sum_indirect_only[ind_i][2], net))
         /\ probe' = [op |-> "indirect", path |-> go_sum_indirect_only[ind_i][1],
                      version |-> go_sum_indirect_only[ind_i][2], net |-> net]
    /\ ind_i' = ind_i + 1
    /\ UNCHANGED <<pc, sumVars, src_i, exit_code, cfgVars, clones, verVars, regVars, lockVars,
                   verify_dirs, verify_cache_file, ovrVars, vanVars, fileVars, args, discovered, run, reliable,
                   first_out, cache_writes, interrupted, vcs_repos, poolVars, outVars, fb_trace>>

\* lines 2054-2065; the loops are over, and no iteration is under examination
StartRecipe ==
    /\ pc = "source"
    /\ src_i > Len(go_sum_modules_with_source)
    /\ ind_i > Len(go_sum_indirect_only)
    /\ pc' = IF FAILED_MODULE_ENTRIES # {} \/ modules = << >> THEN "abort" ELSE "first_pass"
    /\ probe' = NoProbe
    /\ UNCHANGED <<modules, execVars, cfgVars, lsVars, metaVars, verVars, regVars, lockVars,
                   verify_dirs, verify_cache_file, ovrVars, vanVars, fileVars, args, discovered, run, reliable,
                   first_out, cache_writes, interrupted, vcs_repos, poolVars, outVars, fb_trace>>

\* save_ls_remote_cache, save_metadata_cache, save_vanity_url_cache,
\* save_repo_overrides: the file is rewritten when the dirty flag is set
SaveNever(dirty, cache, file) == file

SaveIfDirty(dirty, cache, file) == IF dirty THEN cache ELSE file

\* the cache files the finally block of main rewrites
Rewritten ==
    (IF LS_REMOTE_CACHE_DIRTY THEN {"ls-remote-cache.json"} ELSE {})
        \cup (IF MODULE_METADATA_CACHE_DIRTY THEN {"module-cache.json"} ELSE {})
        \cup (IF VANITY_URL_CACHE_DIRTY THEN {"vanity-url-cache.json"} ELSE {})
        \cup (IF VERIFY_COMMIT_CACHE_DIRTY THEN {"verify-cache.json"} ELSE {})
        \cup (IF MODULE_REPO_OVERRIDES_DIRTY THEN {"repo-overrides.json"} ELSE {})

\* the finally block of main: the five caches are saved; only
\* save_verify_commit_cache resets its dirty flag
SaveCaches ==
    /\ ls_remote_file' = SaveIfDirty(LS_REMOTE_CACHE_DIRTY, LS_REMOTE_CACHE, ls_remote_file)
    /\ metadata_file' = SaveIfDirty(MODULE_METADATA_CACHE_DIRTY, MODULE_METADATA_CACHE, metadata_file)
    /\ vanity_file' = SaveIfDirty(VANITY_URL_CACHE_DIRTY, VANITY_URL_CACHE, vanity_file)
    /\ verify_cache_file' = SaveIfDirty(VERIFY_COMMIT_CACHE_DIRTY, VERIFY_COMMIT_CACHE_V2, verify_cache_file)
    /\ VERIFY_COMMIT_CACHE_DIRTY' = FALSE
    /\ repo_overrides_file' = SaveIfDirty(MODULE_REPO_OVERRIDES_DIRTY, MODULE_REPO_OVERRIDES, repo_overrides_file)
    /\ cache_writes' = cache_writes \cup Rewritten

\* lines 2077-2109 and the end of main: an exception out of generate_recipe
\* ends with exit code 1, and the finally block saves the caches; after a
\* KeyboardInterrupt the pool's shutdown has joined the running workers
Exit ==
    /\ pc \in {"done", "abort", "interrupted"}
    /\ pc = "interrupted" => AllIdle
    /\ pc' = "exit"
    /\ exit_code' = IF pc = "done" /\ gen_result = "true" THEN 0 ELSE 1
    /\ SaveCaches
    /\ UNCHANGED <<modules, sumVars, src_i, ind_i, FAILED_MODULE_PATHS, FAILED_MODULE_ENTRIES, SKIPPED_MODULES,
                   vcs_ref_local, cfgVars, lsVars, metaVars, VERIFY_RESULTS, VERIFY_COMMIT_CACHE,
                   VERIFY_COMMIT_CACHE_V2, VERIFY_FALLBACK_COMMITS, VERIFY_DETECTED_BRANCHES, VERIFY_FULL_REPOS,
                   regVars, lockVars, verify_dirs, vcs_repos, poolVars, outVars, fb_trace,
                   ovrVars, vanVars, args, discovered, run, reliable, probe, first_out, interrupted>>

\* the steps of _execute a KeyboardInterrupt can arrive in
Interruptible == {"load", "source", "first_pass", "verify", "emit", "done", "abort"}

\* locks released when the exception leaves the `with lock` of thread t
ReleaseLocks(t) == [u \in Urls |-> IF lock_owner[u] = t THEN 0 ELSE lock_owner[u]]

\* Ctrl-C: no signal handler is installed, so KeyboardInterrupt is raised in
\* the main thread. Sequential verification (lines 3996-4003) is unwound with
\* it; a pool (lines 3990-3993) cancels the futures not yet started and
\* joins the running workers before the exception reaches main (line 4545).
Interrupt ==
    /\ pc \in Interruptible
    /\ ~interrupted
    /\ pc' = "interrupted"
    /\ interrupted' = TRUE
    /\ IF verify_jobs = 0
          THEN /\ workers' = [t \in 1..MaxJobs |-> IdleWorker]
               /\ lock_owner' = ReleaseLocks(1)
               /\ UNCHANGED body_runs
               /\ VERIFY_REPO_LOCKS_LOCK' = 0
          ELSE UNCHANGED <<workers, lockVars, VERIFY_REPO_LOCKS_LOCK>>
    /\ UNCHANGED <<modules, execVars, cfgVars, lsVars, metaVars, verVars, VERIFY_REPO_CACHE,
                   VERIFY_REPO_LOCKS, mutexes_created, verify_dirs,
                   verify_cache_file, ovrVars, vanVars, fileVars, args, discovered, run, reliable, probe,
                   first_out, cache_writes, vcs_repos, next_idx, results, outVars, fb_trace>>

\* ----------------------------------------------------------------------
\* Initial states of a whole run: the discovered modules, go.sum, go.mod
\* ----------------------------------------------------------------------
\* the base of a forked monorepo, under the vanity path go.mod names
REtcdBase == Record(Pvanbase, V1, U2, CA, TagRef("v1"), NoSubdir, Epoch)

ExecDiscovered == {<<RTagA, REtcdBase>>, <<RPseudoA, REtcdBase>>, <<RPseudoB>>}

\* sorted((module_path, version)) of every go.sum line the model draws from
SumUniverse == <<<<Pab, PsA>>, <<Pab, PsB>>, <<Pcd, V1>>, <<Pold, V1>>, <<Petcd, V1>>>>

IndirectUniverse == <<<<Pab, PsB>>, <<Pab, V1>>>>

RECURSIVE Pick(_, _, _)
Pick(universe, S, i) ==
    IF i > Len(universe) THEN << >>
    ELSE (IF i \in S THEN <<universe[i]>> ELSE << >>) \o Pick(universe, S, i + 1)

SortedSubsets(universe, n) ==
    {Pick(universe, S, 1) : S \in {T \in SUBSET (1..Len(universe)) : Cardinality(T) <= n}}

\* a version whose name sorts after v1
PsC == PseudoVersion("v2.0.0", 1, SA)

\* every (module_path, version) of the go.sum files the model draws, as
\* sorted() orders the tuples
KeyOrder ==
    <<<<Pvan, V1>>, <<Pab, PsA>>, <<Pab, PsB>>, <<Pab, V1>>, <<Pab, PsC>>, <<Pabc, V1>>, <<Pcd, V1>>, <<Pold, V1>>,
      <<Petcd, V1>>>>

\* sorted(keys)
Sorted(keys) == Pick(KeyOrder, {i \in 1..Len(KeyOrder) : KeyOrder[i] \in keys}, 1)

\* a line `path version h1:...` or `path version/go.mod h1:...` of go.sum
SumLine(key, gomod) == [path |-> key[1], version |-> key[2], gomod |-> gomod]

\* lines 122-146: all_entries, from the lines of three fields
AllEntries(lines) ==
    [key \in {<<l.path, l.version>> : l \in lines} |->
        [has_source |-> SumLine(key, FALSE) \in lines, has_gomod |-> SumLine(key, TRUE) \in lines]]

\* parse_go_sum: (modules_with_source, modules_with_gomod_only)
parse_go_sum(lines) ==
    [source |-> {key \in DOMAIN AllEntries(lines) : AllEntries(lines)[key].has_source},
     gomod_only |-> {key \in DOMAIN AllEntries(lines) :
                        ~AllEntries(lines)[key].has_source /\ AllEntries(lines)[key].has_gomod}]

\* go.sum as go writes it: both lines for a module whose source the build
\* needs, the /go.mod line alone for a module of which only go.mod was read
GoSumFile(with_source, gomod_only) ==
    {SumLine(key, gomod) : key \in SeqToSet(with_source), gomod \in BOOLEAN}
        \cup {SumLine(key, TRUE) : key \in SeqToSet(gomod_only)}

GoSumFiles(sum_universe, n, indirect_universe, m) ==
    {GoSumFile(with_source, gomod_only) :
        with_source \in SortedSubsets(sum_universe, n), gomod_only \in SortedSubsets(indirect_universe, m)}

\* replace github.com/x/old => github.com/a/b v1
\* replace go.etcd.io/etcd/server/v3 => example.com/k3s/etcd/server/v3 v1
Replaces == [p \in {Pold, Petcd} |-> IF p = Pold THEN <<Pab, V1>> ELSE <<Pvan, V1>>]

\* module-cache.json of an earlier run
MetaFiles ==
    {EmptyDict,
     [k \in {<<Pab, PsA>>} |-> MetaEntry(U1, CB, 1, NoSubdir, NoRef)],
     [k \in {<<Pab, PsA>>} |-> MetaEntry(U1, CA, 1, NoSubdir, NoRef)]}

ExecStartWith(lists, files, jobs, skips, metas, tables) ==
    /\ pc = "load"
    /\ modules \in lists
    /\ verify_jobs \in jobs
    /\ skip_verify \in skips
    /\ validate_only = FALSE
    /\ \E w \in {WNormal, WMaster} :
         upstream = [u \in Urls |-> IF u = U1 THEN w ELSE IF u = U2 THEN WNormal ELSE IF u = U3 THEN WEmpty ELSE WLate]
    /\ clones = [u \in {} |-> WNormal]
    /\ verify_dirs = [u \in Urls |-> EmptyRepo]
    /\ now = 100
    /\ VERIFY_CACHE_MAX_AGE_DAYS = 30
    /\ LS_REMOTE_CACHE = EmptyDict
    /\ LS_REMOTE_CACHE_DIRTY = FALSE
    /\ MODULE_METADATA_CACHE \in metas
    /\ MODULE_METADATA_CACHE_DIRTY = FALSE
    /\ VERIFY_RESULTS = EmptyDict
    /\ VERIFY_COMMIT_CACHE = EmptyDict
    /\ VERIFY_COMMIT_CACHE_DIRTY = FALSE
    /\ VERIFY_COMMIT_CACHE_V2 = EmptyDict
    /\ VERIFY_FALLBACK_COMMITS = EmptyDict
    /\ VERIFY_DETECTED_BRANCHES = EmptyDict
    /\ VERIFY_FULL_REPOS = {}
    /\ VERIFY_REPO_CACHE = {}
    /\ VERIFY_REPO_LOCKS = {}
    /\ VERIFY_REPO_LOCKS_LOCK = 0
    /\ mutexes_created = [u \in Urls |-> 0]
    /\ lock_owner = [u \in Urls |-> 0]
    /\ body_runs = EmptyDict
    /\ VERIFY_CORRECTIONS_APPLIED = FALSE
    /\ verify_cache_file = EmptyDict
    /\ \E table \in tables : SessionStart(table)
    /\ vcs_repos = EmptyDict
    /\ workers = [t \in 1..MaxJobs |-> IdleWorker]
    /\ next_idx = 1
    /\ results = EmptyDict
    /\ src_uri_entries = {}
    /\ modules_data = << >>
    /\ files_written = FALSE
    /\ gen_result = "none"
    /\ fb_trace = {}
    /\ go_sum \in files
    /\ go_sum_modules_with_source = Sorted(parse_go_sum(go_sum).source)
    /\ go_sum_indirect_only = Sorted(parse_go_sum(go_sum).gomod_only)
    /\ go_mod_replaces = Replaces
    /\ src_i = 1
    /\ ind_i = 1
    /\ FAILED_MODULE_PATHS = {}
    /\ FAILED_MODULE_ENTRIES = {}
    /\ SKIPPED_MODULES = EmptyDict
    /\ vcs_ref_local = Unbound
    /\ exit_code = NotExited

ExecStart(jobs, skips, metas, tables) ==
    ExecStartWith(ExecDiscovered, GoSumFiles(SumUniverse, MaxSumLen, IndirectUniverse, MaxSumLen),
                  jobs, skips, metas, tables)

InitExec == ExecStart({0}, BOOLEAN, MetaFiles, {EmptyDict})

\* another version of the replaced etcd sub-module, found by the discovery
REtcdSub == Record(Petcd, PsA, U2, CA, NoRef, <<"server">>, 1)

DriverDiscovered == ExecDiscovered \cup {<<REtcdSub>>}

\* sorted, with two sub-modules that go.mod does not replace: one of the
\* fork under its vanity path and one of github.com/a/b
DriverSumUniverse ==
    <<<<Pvan, V1>>, <<Pab, PsA>>, <<Pab, PsB>>, <<Pabc, V1>>, <<Pcd, V1>>, <<Pold, V1>>, <<Petcd, V1>>>>

\* a tagged version and two pseudo-versions of github.com/a/b, one sorting
\* before the tag and one after it
DriverIndirectUniverse == <<<<Pab, PsB>>, <<Pab, V1>>, <<Pab, PsC>>>>

MaxIndirectLen == 2

\* the two loops of the driver over more module paths, the caches empty
InitDriver ==
    ExecStartWith(DriverDiscovered, GoSumFiles(DriverSumUniverse, MaxSumLen, DriverIndirectUniverse, MaxIndirectLen),
                  {0}, BOOLEAN, {EmptyDict}, {EmptyDict})

\* the table after `--set-repo github.com/x/y <url>` (lines 1638-1647)
SetRepoTable == [k \in {<<"github.com/x/y", None>>} |-> U1]

InitInt == ExecStart({0, MaxJobs}, {FALSE}, {EmptyDict}, {SetRepoTable})

\* ----------------------------------------------------------------------
\* Repository overrides
\* ----------------------------------------------------------------------
\* str.strip()
Strip(x) ==
    CASE x = " github.com/a/b " -> "github.com/a/b"
      [] x = " v1 " -> "v1"
      [] x = " " -> ""
      [] OTHER -> x

\* bool(x) of an optional string
Truthy(x) == x # None /\ x # ""

\* the module half of the key; an empty one raises ValueError
OverrideModule(module_path) == Strip(module_path)

_normalise_override_key(module_path, version) ==
    <<OverrideModule(module_path), IF Truthy(version) THEN Strip(version) ELSE None>>

\* "module@version" is given as <<module, version>>, "module" as <<module, None>>
_parse_override_spec(module_spec) ==
    <<Strip(module_spec[1]),
      IF Truthy(module_spec[2]) THEN Strip(module_spec[2]) ELSE None>>

\* the legacy table is empty in this version
REPO_OVERRIDES == [m \in {} |-> << >>]

\* if candidate and candidate not in overrides: overrides.append(candidate)
RECURSIVE AppendNew(_, _)
AppendNew(overrides, candidates) ==
    IF candidates = << >> THEN overrides
    ELSE AppendNew(IF Truthy(Head(candidates)) /\ Head(candidates) \notin SeqToSet(overrides)
                   THEN Append(overrides, Head(candidates)) ELSE overrides,
                   Tail(candidates))

\* the manual overrides consulted before the dynamic ones
ManualFirstCandidates(dyn, manual, module_path, version) ==
    AppendNew(<< >>,
              <<DictGet(manual, _normalise_override_key(module_path, version), None),
                DictGet(manual, _normalise_override_key(module_path, None), None),
                DictGet(dyn, _normalise_override_key(module_path, version), None),
                DictGet(dyn, _normalise_override_key(module_path, None), None)>>
                  \o DictGet(REPO_OVERRIDES, module_path, << >>))

\* repo_override_candidates with MODULE_REPO_OVERRIDES = dyn, MANUAL_OVERRIDES = manual
repo_override_candidates(dyn, manual, module_path, version) ==
    AppendNew(<< >>,
              <<DictGet(dyn, _normalise_override_key(module_path, version), None),
                DictGet(dyn, _normalise_override_key(module_path, None), None),
                DictGet(manual, _normalise_override_key(module_path, version), None),
                DictGet(manual, _normalise_override_key(module_path, None), None)>>
                  \o DictGet(REPO_OVERRIDES, module_path, << >>))

OverrideModules == {"github.com/a/b", " github.com/a/b "}

OverrideVersions == {None, " ", "v1", " v1 "}

\* --set-repo takes any string as the URL, the empty one too
OverrideUrls == {"", U1, U2}

OverrideSpecs == ((OverrideModules \cup {""}) \X OverrideVersions) \cup {<<"github.com/c/d", "v1">>}

\* manual-overrides.json as _load_overrides_from_file reads it
ManualOverrideFiles ==
    {EmptyDict,
     [k \in {<<"github.com/a/b", None>>} |-> U2],
     [k \in {<<"github.com/a/b", "v1">>} |-> U1],
     [k \in {<<"github.com/a/b", "v1">>, <<"github.com/a/b", None>>} |-> IF k[2] = None THEN U1 ELSE ""],
     [k \in {<<"github.com/a/b", "v1">>, <<"github.com/a/b", None>>} |-> IF k[2] = None THEN U1 ELSE U2]}

\* lines 1638-1647: --set-repo MODULE[@VERSION] URL
SetRepoOverride ==
    /\ pc = "overrides"
    /\ \E module_spec \in OverrideSpecs, repo_url \in OverrideUrls :
         LET parsed == _parse_override_spec(module_spec)
         IN IF OverrideModule(parsed[1]) = ""
            THEN UNCHANGED <<MODULE_REPO_OVERRIDES, MODULE_REPO_OVERRIDES_DIRTY>>
            ELSE /\ MODULE_REPO_OVERRIDES' =
                      DictSet(MODULE_REPO_OVERRIDES, _normalise_override_key(parsed[1], parsed[2]), repo_url)
                 /\ MODULE_REPO_OVERRIDES_DIRTY' = TRUE
    /\ UNCHANGED <<pc, modules, cfgVars, lsVars, metaVars, verVars, regVars, lockVars, verify_dirs,
                   verify_cache_file, MANUAL_OVERRIDES, override_query, sessVars, vcs_repos, poolVars, outVars,
                   fb_trace, execVars>>

\* lines 1611-1630: what --clear-repo removes for a parsed specification
ClearedOverrides(dyn, module_path, version) ==
    IF version # None
    THEN DictPop(dyn, _normalise_override_key(module_path, version))
    ELSE [k \in {c \in DOMAIN dyn : ~(c = _normalise_override_key(module_path, version))
                                    /\ ~(c[1] = module_path /\ c[2] # None)} |-> dyn[k]]

\* lines 1602-1636: --clear-repo MODULE[@VERSION]
ClearRepoOverride ==
    /\ pc = "overrides"
    /\ \E module_spec \in OverrideSpecs :
         LET parsed == _parse_override_spec(module_spec)
         IN IF OverrideModule(parsed[1]) = ""
            THEN UNCHANGED <<MODULE_REPO_OVERRIDES, MODULE_REPO_OVERRIDES_DIRTY>>
            ELSE /\ MODULE_REPO_OVERRIDES' = ClearedOverrides(MODULE_REPO_OVERRIDES, parsed[1], parsed[2])
                 /\ MODULE_REPO_OVERRIDES_DIRTY' =
                      (MODULE_REPO_OVERRIDES_DIRTY
                          \/ ClearedOverrides(MODULE_REPO_OVERRIDES, parsed[1], parsed[2]) # MODULE_REPO_OVERRIDES)
    /\ UNCHANGED <<pc, modules, cfgVars, lsVars, metaVars, verVars, regVars, lockVars, verify_dirs,
                   verify_cache_file, MANUAL_OVERRIDES, override_query, sessVars, vcs_repos, poolVars, outVars,
                   fb_trace, execVars>>

\* a resolver asks for the override candidates of a module
LookupOverrides ==
    /\ pc = "overrides"
    /\ \E module_path \in OverrideModules, version \in OverrideVersions :
         override_query' = [module_path |-> module_path, version |-> version,
                            overrides |-> repo_override_candidates(MODULE_REPO_OVERRIDES, MANUAL_OVERRIDES,
                                                                   module_path, version)]
    /\ UNCHANGED <<pc, modules, cfgVars, lsVars, metaVars, verVars, regVars, lockVars, verify_dirs,
                   verify_cache_file, MODULE_REPO_OVERRIDES, MODULE_REPO_OVERRIDES_DIRTY, MANUAL_OVERRIDES,
                   sessVars, vcs_repos, poolVars, outVars, fb_trace, execVars>>

\* the engine before any module is read: every cache empty, no worker busy
IdleEngineOver(servers, bare_clones) ==
    /\ modules = << >>
    /\ verify_jobs = 0
    /\ skip_verify = FALSE
    /\ validate_only = FALSE
    /\ upstream = servers
    /\ clones = bare_clones
    /\ verify_dirs = [u \in Urls |-> EmptyRepo]
    /\ now = 100
    /\ VERIFY_CACHE_MAX_AGE_DAYS = 30
    /\ LS_REMOTE_CACHE = EmptyDict
    /\ LS_REMOTE_CACHE_DIRTY = FALSE
    /\ MODULE_METADATA_CACHE = EmptyDict
    /\ MODULE_METADATA_CACHE_DIRTY = FALSE
    /\ VERIFY_RESULTS = EmptyDict
    /\ VERIFY_COMMIT_CACHE = EmptyDict
    /\ VERIFY_COMMIT_CACHE_DIRTY = FALSE
    /\ VERIFY_COMMIT_CACHE_V2 = EmptyDict
    /\ VERIFY_FALLBACK_COMMITS = EmptyDict
    /\ VERIFY_DETECTED_BRANCHES = EmptyDict
    /\ VERIFY_FULL_REPOS = {}
    /\ VERIFY_REPO_CACHE = {}
    /\ VERIFY_REPO_LOCKS = {}
    /\ VERIFY_REPO_LOCKS_LOCK = 0
    /\ mutexes_created = [u \in Urls |-> 0]
    /\ lock_owner = [u \in Urls |-> 0]
    /\ body_runs = EmptyDict
    /\ VERIFY_CORRECTIONS_APPLIED = FALSE
    /\ verify_cache_file = EmptyDict
    /\ vcs_repos = EmptyDict
    /\ workers = [t \in 1..MaxJobs |-> IdleWorker]
    /\ next_idx = 1
    /\ results = EmptyDict
    /\ src_uri_entries = {}
    /\ modules_data = << >>
    /\ files_written = FALSE
    /\ gen_result = "none"
    /\ fb_trace = {}
    /\ NoDriverWork

IdleEngineWith(w, bare_clones) == IdleEngineOver([u \in Urls |-> IF u = U1 THEN w ELSE WNormal], bare_clones)

\* no clone under CLONE_CACHE_DIR
NoClones == [u \in {} |-> WNormal]

\* load_ls_remote_cache, lines 2182-2194: every entry of the file, null
\* values included, goes into the in-memory cache
load_ls_remote_cache(file) == file

IdleEngine == IdleEngineWith(WNormal, NoClones)

\* ----------------------------------------------------------------------
\* git_ls_remote on its own
\* ----------------------------------------------------------------------
\* the refs asked for: a tag, a branch, a tag no server has
LsRefs == {TagRef("v1"), HeadRef("main"), TagRef("v9")}

\* the clones a run can find under CLONE_CACHE_DIR: none, or one of U1 made
\* when the repository looked like w
LocalClones == {NoClones} \cup {[u \in {U1} |-> w] : w \in {WNormal, WAnnot}}

InitLsRemote ==
    /\ pc = "ls_remote"
    /\ \E w \in Worlds \cup {WEmpty}, cl \in LocalClones : IdleEngineWith(w, cl)
    /\ SessionStart(EmptyDict)

\* one call git_ls_remote(U1, ref), lines 2210-2316
LsRemoteCall ==
    /\ pc = "ls_remote"
    /\ \E ref \in LsRefs, out \in NetOutcomes :
         LET r == git_ls_remote(LS_REMOTE_CACHE, clones, upstream[U1], U1, ref, out)
         IN /\ LS_REMOTE_CACHE' = r.cache
            /\ LS_REMOTE_CACHE_DIRTY' = (LS_REMOTE_CACHE_DIRTY \/ r.dirty)
            /\ probe' = [op |-> "git_ls_remote", url |-> U1, ref |-> ref, res |-> r.res, out |-> out,
                          miss |-> <<U1, ref>> \notin DOMAIN LS_REMOTE_CACHE, queried |-> r.queried]
    /\ UNCHANGED <<pc, modules, cfgVars, clones, metaVars, verVars, regVars, lockVars, verify_dirs,
                   verify_cache_file, ovrVars, vanVars, fileVars, args, discovered, run, reliable, first_out,
                   cache_writes, interrupted, vcs_repos, poolVars, outVars, fb_trace, execVars>>

\* configure_cache_paths has loaded manual-overrides.json; repo-overrides.json is absent
InitOverrides ==
    /\ pc = "overrides"
    /\ IdleEngine
    /\ ls_remote_file = EmptyDict
    /\ metadata_file = EmptyDict
    /\ repo_overrides_file = EmptyDict
    /\ vanity_file = EmptyDict
    /\ VANITY_URL_CACHE = EmptyDict
    /\ VANITY_URL_CACHE_DIRTY = FALSE
    /\ args = NoArgs
    /\ discovered = << >>
    /\ run = 1
    /\ reliable = FALSE
    /\ probe = NoProbe
    /\ first_out = NoOutput
    /\ cache_writes = {}
    /\ interrupted = FALSE
    /\ MODULE_REPO_OVERRIDES = EmptyDict
    /\ MODULE_REPO_OVERRIDES_DIRTY = FALSE
    /\ MANUAL_OVERRIDES \in ManualOverrideFiles
    /\ override_query = NoQuery

\* ----------------------------------------------------------------------
\* Two runs of the engine on one data directory
\* ----------------------------------------------------------------------
\* the module path and the version as the override tables spell them
PathName(parts) ==
    CASE parts = Pab -> "github.com/a/b"
      [] parts = Pcd -> "github.com/c/d"
      [] parts = Pgopkg -> "gopkg.in/a/b.v1"
      [] parts = Pshort -> "example.com/etcd"
      [] OTHER -> "other"

\* _url_allowed_for_module
_url_allowed_for_module(dyn, manual, module_path, url, version) ==
    LET overrides == repo_override_candidates(dyn, manual, PathName(module_path), version.name)
    IN overrides = << >> \/ _normalize_url(url) \in {_normalize_url(o) : o \in SeqToSet(overrides)}

\* prune_metadata_cache: what stays of the metadata cache
prune_metadata_cache(cache, dyn, manual) ==
    [k \in {key \in DOMAIN cache :
                /\ cache[key].vcs_url # NoUrl
                /\ cache[key].commit # NoHash
                /\ Len(cache[key].commit) = FullHashLen
                /\ \A i \in 1..Len(cache[key].commit) : cache[key].commit[i] \in (HexLower \cup HexUpper)
                /\ _url_allowed_for_module(dyn, manual, key[1], cache[key].vcs_url, key[2])} |-> cache[k]]

\* lines 1649-1658: --clear-commit looks the pair up in VERIFY_COMMIT_CACHE
ClearCommits(cache, pairs) == [k \in DOMAIN cache \ pairs |-> cache[k]]

\* lines 1660-1666: --inject-commit
InjectCommits(cache, pairs) == [k \in DOMAIN cache \cup pairs |-> TRUE]

\* a JSON true or false as the value of a key of verify-cache.json; a v2 value
\* is the record of the entry
JsonBool(b) == [bool |-> b]

isinstance_bool(v) == DOMAIN v = {"bool"}

\* lines 2364-2366: the format is detected on the first value of the file
LegacyFormat(data) ==
    /\ DOMAIN data # {}
    /\ isinstance_bool(data[CHOOSE k \in DOMAIN data : TRUE])

\* lines 2370-2377: the true entries of a legacy file, stamped with the time
\* of the load
MigratedEntries(data, t) ==
    [k \in {key \in DOMAIN data : data[key].bool} |-> V2Entry(t, t, "cached")]

\* load_verify_commit_cache into the empty VERIFY_COMMIT_CACHE_V2 of a new
\* process: the cache, and VERIFY_COMMIT_CACHE_DIRTY as line 2378 and then
\* line 2383 assign it
load_verify_commit_cache(data, t) ==
    LET legacy == LegacyFormat(data)
        dirty_2378 == legacy
        dirty_2383 == FALSE
    IN [v2 |-> IF legacy THEN MigratedEntries(data, t) ELSE data,
        dirty |-> dirty_2383]

\* main up to the discovery: configure_cache_paths loads verify-cache.json and
\* the override files, _execute handles --clear-commit and --inject-commit and
\* loads, then prunes, the other caches
Startup ==
    /\ pc = "start"
    /\ pc' = "load"
    /\ VERIFY_COMMIT_CACHE_V2' = load_verify_commit_cache(verify_cache_file, now).v2
    /\ MODULE_REPO_OVERRIDES' = repo_overrides_file
    /\ MODULE_REPO_OVERRIDES_DIRTY' = FALSE
    /\ VERIFY_REPO_CACHE' = {}
    /\ UNCHANGED <<VERIFY_REPO_LOCKS_LOCK, mutexes_created>>
    /\ LET cleared == ClearCommits(EmptyDict, args.clear_commit)
       IN /\ VERIFY_COMMIT_CACHE' = InjectCommits(cleared, args.inject_commit)
          /\ VERIFY_COMMIT_CACHE_DIRTY' = \/ load_verify_commit_cache(verify_cache_file, now).dirty
                                           \/ cleared # EmptyDict
                                           \/ args.inject_commit # {}
          /\ VERIFY_RESULTS' = InjectCommits(ClearCommits(VERIFY_RESULTS, args.clear_commit), args.inject_commit)
    /\ LET pruned == prune_metadata_cache(metadata_file, repo_overrides_file, MANUAL_OVERRIDES)
       IN /\ MODULE_METADATA_CACHE' = pruned
          /\ MODULE_METADATA_CACHE_DIRTY' = (pruned # metadata_file)
    /\ LS_REMOTE_CACHE' = ls_remote_file
    /\ VANITY_URL_CACHE' = vanity_file
    /\ UNCHANGED <<modules, cfgVars, LS_REMOTE_CACHE_DIRTY, clones, VERIFY_FALLBACK_COMMITS,
                   VERIFY_DETECTED_BRANCHES, VERIFY_FULL_REPOS, VERIFY_REPO_LOCKS, lockVars, verify_dirs,
                   verify_cache_file, MANUAL_OVERRIDES, override_query, VANITY_URL_CACHE_DIRTY, fileVars, args,
                   discovered, run, reliable, probe, first_out, cache_writes, interrupted, vcs_repos, poolVars, outVars,
                   fb_trace, execVars>>

\* the user starts the engine again: a new process with the same command
\* line and input, the data directory and the repositories as the first
\* run left them
NewProcess ==
    /\ run' = 2
    /\ pc' = "start"
    /\ modules' = discovered
    /\ first_out' = [src_uri_entries |-> src_uri_entries, modules_data |-> modules_data,
                     files_written |-> files_written /\ exit_code = 0]
    /\ LS_REMOTE_CACHE' = EmptyDict
    /\ LS_REMOTE_CACHE_DIRTY' = FALSE
    /\ MODULE_METADATA_CACHE' = EmptyDict
    /\ MODULE_METADATA_CACHE_DIRTY' = FALSE
    /\ VANITY_URL_CACHE' = EmptyDict
    /\ VANITY_URL_CACHE_DIRTY' = FALSE
    /\ VERIFY_RESULTS' = EmptyDict
    /\ VERIFY_COMMIT_CACHE' = EmptyDict
    /\ VERIFY_COMMIT_CACHE_V2' = EmptyDict
    /\ VERIFY_COMMIT_CACHE_DIRTY' = FALSE
    /\ VERIFY_FALLBACK_COMMITS' = EmptyDict
    /\ VERIFY_DETECTED_BRANCHES' = EmptyDict
    /\ VERIFY_FULL_REPOS' = {}
    /\ VERIFY_REPO_CACHE' = {}
    /\ VERIFY_REPO_LOCKS' = {}
    /\ VERIFY_REPO_LOCKS_LOCK' = 0
    /\ mutexes_created' = [u \in Urls |-> 0]
    /\ VERIFY_CORRECTIONS_APPLIED' = FALSE
    /\ MODULE_REPO_OVERRIDES' = EmptyDict
    /\ MODULE_REPO_OVERRIDES_DIRTY' = FALSE
    /\ vcs_repos' = EmptyDict
    /\ results' = EmptyDict
    /\ next_idx' = 1
    /\ src_uri_entries' = {}
    /\ modules_data' = << >>
    /\ files_written' = FALSE
    /\ gen_result' = "none"
    /\ exit_code' = NotExited
    /\ cache_writes' = {}
    /\ fb_trace' = {}
    /\ body_runs' = EmptyDict

Rerun ==
    /\ pc = "exit"
    /\ run = 1
    /\ NewProcess
    /\ UNCHANGED <<cfgVars, clones, lock_owner, verify_dirs, verify_cache_file, MANUAL_OVERRIDES, override_query,
                   fileVars, args, discovered, reliable, probe, interrupted, workers, sumVars, src_i, ind_i,
                   FAILED_MODULE_PATHS, FAILED_MODULE_ENTRIES, SKIPPED_MODULES, vcs_ref_local>>

\* the engine started again as Rerun does, with verification made sequential
\* (--verify-jobs 0) and on a data directory as empty as the first run found it
Replay ==
    /\ pc = "exit"
    /\ run = 1
    /\ NewProcess
    /\ verify_jobs' = 0
    /\ verify_dirs' = [u \in Urls |-> EmptyRepo]
    /\ clones' = [u \in {} |-> WNormal]
    /\ verify_cache_file' = EmptyDict
    /\ ls_remote_file' = EmptyDict
    /\ metadata_file' = EmptyDict
    /\ repo_overrides_file' = EmptyDict
    /\ vanity_file' = EmptyDict
    /\ UNCHANGED <<skip_verify, validate_only, upstream, now, VERIFY_CACHE_MAX_AGE_DAYS, lock_owner,
                   MANUAL_OVERRIDES, override_query, args, discovered, reliable, probe, interrupted, workers,
                   sumVars, src_i, ind_i, FAILED_MODULE_PATHS, FAILED_MODULE_ENTRIES, SKIPPED_MODULES,
                   vcs_ref_local>>

\* verify-cache.json of an earlier run: absent, a fresh entry, an aged entry
VerifyCacheFiles ==
    {EmptyDict,
     [k \in {<<U1, CA>>} |-> V2Entry(90, 90, "fetch")],
     [k \in {<<U1, CA>>} |-> V2Entry(10, 10, "fetch")]}

ArgPairs == {{}, {<<U1, CA>>}}

\* the process before main has read anything; the data directory holds at most
\* a verification cache, and the network is reliable
RunsStart(lists, jobs, ages, files, repos) ==
    /\ pc = "start"
    /\ modules \in lists
    /\ discovered = modules
    /\ verify_jobs \in jobs
    /\ skip_verify = FALSE
    /\ validate_only = FALSE
    /\ \E w \in Worlds : upstream = [u \in Urls |-> IF u = U1 THEN w ELSE WNormal]
    /\ clones = [u \in {} |-> WNormal]
    /\ \E r \in repos : verify_dirs = [u \in Urls |-> IF u = U1 THEN r ELSE EmptyRepo]
    /\ now = 100
    /\ VERIFY_CACHE_MAX_AGE_DAYS \in ages
    /\ LS_REMOTE_CACHE = EmptyDict
    /\ LS_REMOTE_CACHE_DIRTY = FALSE
    /\ MODULE_METADATA_CACHE = EmptyDict
    /\ MODULE_METADATA_CACHE_DIRTY = FALSE
    /\ VERIFY_RESULTS = EmptyDict
    /\ VERIFY_COMMIT_CACHE = EmptyDict
    /\ VERIFY_COMMIT_CACHE_DIRTY = FALSE
    /\ VERIFY_COMMIT_CACHE_V2 = EmptyDict
    /\ VERIFY_FALLBACK_COMMITS = EmptyDict
    /\ VERIFY_DETECTED_BRANCHES = EmptyDict
    /\ VERIFY_FULL_REPOS = {}
    /\ VERIFY_REPO_CACHE = {}
    /\ VERIFY_REPO_LOCKS = {}
    /\ VERIFY_REPO_LOCKS_LOCK = 0
    /\ mutexes_created = [u \in Urls |-> 0]
    /\ lock_owner = [u \in Urls |-> 0]
    /\ body_runs = EmptyDict
    /\ VERIFY_CORRECTIONS_APPLIED = FALSE
    /\ verify_cache_file \in files
    /\ ls_remote_file = EmptyDict
    /\ metadata_file = EmptyDict
    /\ repo_overrides_file = EmptyDict
    /\ vanity_file = EmptyDict
    /\ VANITY_URL_CACHE = EmptyDict
    /\ VANITY_URL_CACHE_DIRTY = FALSE
    /\ \E c \in ArgPairs, i \in ArgPairs : args = [clear_commit |-> c, inject_commit |-> i]
    /\ run = 1
    /\ reliable = TRUE
    /\ probe = NoProbe
    /\ first_out = NoOutput
    /\ cache_writes = {}
    /\ interrupted = FALSE
    /\ MODULE_REPO_OVERRIDES = EmptyDict
    /\ MODULE_REPO_OVERRIDES_DIRTY = FALSE
    /\ MANUAL_OVERRIDES = EmptyDict
    /\ override_query = NoQuery
    /\ vcs_repos = EmptyDict
    /\ workers = [t \in 1..MaxJobs |-> IdleWorker]
    /\ next_idx = 1
    /\ results = EmptyDict
    /\ src_uri_entries = {}
    /\ modules_data = << >>
    /\ files_written = FALSE
    /\ gen_result = "none"
    /\ fb_trace = {}
    /\ NoDriverWork

InitRuns == RunsStart(GenLists, 0..MaxJobs, {30}, VerifyCacheFiles, {EmptyRepo})

\* an entry of verify-cache.json that has no last_checked
Undated == [verified |-> TRUE, first_verified |-> 10, last_checked |-> NoTs, fetch_method |-> "fetch"]

\* verify-cache.json with an entry for <<U1, CA>>: checked 10 days ago, 30
\* days ago, 90 days ago, or without the date of its last check
AgingFiles ==
    {[k \in {<<U1, CA>>} |-> e] : e \in {V2Entry(90, 90, "fetch"), V2Entry(50, 70, "fetch"),
                                         V2Entry(10, 10, "fetch"), Undated}}

\* the runs of one module over a verification cache of an earlier run, with
\* --verify-cache-max-age 0 or 30, the verifier's repository empty or as an
\* earlier run left it
InitAging == RunsStart({l \in GenLists : Len(l) = 1}, {0, MaxJobs}, {0, 30}, AgingFiles, {EmptyRepo, StaleRepo})

\* a pool of MaxJobs threads, an empty data directory, no cache options
InitSched ==
    /\ RunsStart(GenLists, {MaxJobs}, {30}, {EmptyDict}, {EmptyRepo})
    /\ args = NoArgs

\* verify-cache.json as a version of the program that wrote booleans left it
LegacyFiles ==
    {[k \in {<<U1, CA>>} |-> JsonBool(TRUE)],
     [k \in {<<U1, CA>>, <<U1, CB>>} |-> JsonBool(k = <<U1, CA>>)],
     [k \in {<<U1, CB>>, <<U2, CA>>} |-> JsonBool(k = <<U2, CA>>)]}

\* the runs over a legacy verification cache
InitLegacy == RunsStart(GenLists, {0, MaxJobs}, {30}, LegacyFiles, {EmptyRepo})

\* ----------------------------------------------------------------------
\* Specifications
\* ----------------------------------------------------------------------
\* the steps of one verify_commit_accessible call of thread t
Call(t) ==
    \/ V_Start(t)
    \/ V_Master(t)
    \/ V_NewLock(t)
    \/ V_Lock(t)
    \/ V_FetchRef(t)
    \/ V_FetchCommit(t)
    \/ V_TagRefetch(t)
    \/ V_FullFetch(t)
    \/ V_Exists(t)
    \/ V_Fallback(t)
    \/ V_FallbackFetch(t)
    \/ V_VerifyActual(t)

Verify(t) ==
    \/ V_Take(t)
    \/ Call(t)
    \/ VM_Post(t)

NextGen ==
    \/ LoadDiscoveredModules
    \/ StartRecipe
    \/ FirstPass
    \/ \E t \in 1..MaxJobs : Verify(t)
    \/ Collect
    \/ Emit
    \/ Exit

\* a run whose go.sum asks for nothing beyond the discovered modules
SpecGen == InitGen /\ [][NextGen]_vars

\* runs long enough for the sequential loop to reach its periodic save
SpecLong == InitLong /\ [][NextGen]_vars

\* the operating system schedules every thread that can take a step, and
\* every external command returns (each has a timeout)
ThreadsScheduled == \A t \in 1..MaxJobs : WF_vars(Call(t))

\* the pool runs with their threads scheduled fairly
SpecFair == InitFair /\ [][NextGen]_vars /\ ThreadsScheduled

NextExec ==
    \/ NextGen
    \/ SourceStep
    \/ IndirectStep

\* a run with go.sum and go.mod, verification sequential
SpecExec == InitExec /\ [][NextExec]_vars

NextInt ==
    \/ NextExec
    \/ Interrupt

\* the driver's loops over sub-modules, forks and siblings
SpecDriver == InitDriver /\ [][NextExec]_vars

\* a run the user may interrupt, sequential or with a pool, after --set-repo
SpecInt == InitInt /\ [][NextInt]_vars

NextOverrides ==
    \/ SetRepoOverride
    \/ ClearRepoOverride
    \/ LookupOverrides

\* the override tables under --set-repo and --clear-repo, and the lookups
SpecOverrides == InitOverrides /\ [][NextOverrides]_vars

\* the run ends and the next one begins: main saves the cache when it is
\* dirty (lines 2197-2207) and the new process loads the file
LsNextRun ==
    /\ pc = "ls_remote"
    /\ run = 1
    /\ run' = 2
    /\ ls_remote_file' = SaveIfDirty(LS_REMOTE_CACHE_DIRTY, LS_REMOTE_CACHE, ls_remote_file)
    /\ LS_REMOTE_CACHE' = load_ls_remote_cache(ls_remote_file')
    /\ LS_REMOTE_CACHE_DIRTY' = FALSE
    /\ cache_writes' = cache_writes \cup (IF LS_REMOTE_CACHE_DIRTY THEN {"ls-remote-cache.json"} ELSE {})
    /\ UNCHANGED <<pc, modules, cfgVars, clones, metaVars, verVars, regVars, lockVars, verify_dirs,
                   verify_cache_file, ovrVars, vanVars, metadata_file, repo_overrides_file, vanity_file, args,
                   discovered, reliable, probe, first_out, interrupted, vcs_repos, poolVars, outVars, fb_trace,
                   execVars>>

NextLsRemote ==
    \/ LsRemoteCall
    \/ LsNextRun

\* calls of git_ls_remote against one upstream, with or without a local
\* clone, in a run and in the run that follows it
SpecLsRemote == InitLsRemote /\ [][NextLsRemote]_vars

\* ----------------------------------------------------------------------
\* resolve_module_metadata on its own, every branch, with the override
\* tables (resolve_module_metadata above is the function for the paths of
\* three or more components outside gopkg.in when no override is set)
\* ----------------------------------------------------------------------
\* _candidate_gopkg_repos: gopkg.in/<owner>/<name>.vN gives github.com/<owner>/<name>
_candidate_gopkg_repos(parts) == IF parts = Pgopkg THEN <<U1>> ELSE << >>

OverridesOf(dyn, manual, path, version) == repo_override_candidates(dyn, manual, PathName(path), version.name)

\* lines 3109-3112: url and url not in override_urls
NotAmongOverrides(cached, override_urls) ==
    /\ override_urls # << >>
    /\ cached[1].vcs_url # NoUrl
    /\ cached[1].vcs_url \notin SeqToSet(override_urls)

\* lines 3102-3117: the cached entry after the three checks
CachedCheckOverrides(st, dyn, manual, path, version, net) ==
    IF /\ get_cached_metadata(st.meta, path, version) # << >>
       /\ NotAmongOverrides(get_cached_metadata(st.meta, path, version), OverridesOf(dyn, manual, path, version))
    THEN [cached |-> << >>, st |-> st]
    ELSE CachedCheck(st, path, version, net)

\* lines 3144-3146: the candidates the override policy lets through
RECURSIVE AllowedCandidates(_, _, _, _, _)
AllowedCandidates(urls, dyn, manual, path, version) ==
    IF urls = << >> THEN << >>
    ELSE (IF _url_allowed_for_module(dyn, manual, path, Head(urls), version) THEN <<Head(urls)>> ELSE << >>)
             \o AllowedCandidates(Tail(urls), dyn, manual, path, version)

\* every candidate is let through
AllCandidates(urls, dyn, manual, path, version) == urls

\* resolve_with_go_info, lines 3127-3169, with the overrides at the head of the candidates
GoInfoWithOverrides(st, dyn, manual, path, version, go_info, fallback_url, fallback_subdir, net) ==
    IF go_info = NoInfo THEN [rec |-> << >>, st |-> st]
    ELSE ResolveCandidates(st, path, version, go_info[1],
                           IF go_info[1].subdir # NoSubdir THEN go_info[1].subdir ELSE fallback_subdir,
                           AllowedCandidates(AppendNew(OverridesOf(dyn, manual, path, version),
                                                       <<go_info[1].vcs_url, fallback_url>>),
                                             dyn, manual, path, version),
                           net)

\* a lookup without go list behind it: no ref, no timestamp, no subdirectory
NoGoInfo == [vcs_url |-> NoUrl, commit |-> NoHash, timestamp |-> NoTs, subdir |-> NoSubdir, vcs_ref |-> NoRef]

\* which return statement gave the record
From(r, origin) == [rec |-> r.rec, st |-> r.st, from |-> IF r.rec = << >> THEN "none" ELSE origin]

\* if cached: return cached
CachedOrNone(st, cached) ==
    IF cached # << >> THEN From([rec |-> cached, st |-> st], "cache") ELSE From([rec |-> << >>, st |-> st], "none")

\* lines 3173-3179: the cached URL, the vanity answer, the github.com guesses
GopkgCandidates(cached, vanity_repo, parts) ==
    (IF cached # << >> /\ cached[1].vcs_url # NoUrl THEN <<cached[1].vcs_url>> ELSE << >>)
        \o (IF vanity_repo # NoUrl THEN <<vanity_repo>> ELSE << >>)
        \o _candidate_gopkg_repos(parts)

\* lines 3198-3208: g is what the loop over the candidates gave
GopkgFallback(g, c, dyn, manual, path, version, env) ==
    LET result == GoInfoWithOverrides(g.st, dyn, manual, path, version, fetch_go_metadata(path, version, env),
                                      NoUrl, NoSubdir, env.net)
    IN IF g.rec # << >> THEN From(g, "lookup")
       ELSE IF result.rec # << >> THEN From(result, "lookup")
       ELSE CachedOrNone(result.st, c.cached)

\* lines 3171-3208: c is the cached entry after its checks
ResolveGopkg(c, dyn, manual, path, version, env) ==
    GopkgFallback(ResolveCandidates(CacheVanity(c.st, path, env), path, version, NoGoInfo, NoSubdir,
                                    GopkgCandidates(c.cached, query_vanity_url(c.st.vanity, path, env), path),
                                    env.net),
                  c, dyn, manual, path, version, env)

\* lines 3216-3236: st is the state after go list gave nothing
ShortVanity(st, c, path, version, env) ==
    LET vanity_repo == query_vanity_url(st.vanity, path, env)
        v == ResolveCandidates(CacheVanity(st, path, env), path, version, NoGoInfo, NoSubdir,
                               IF vanity_repo # NoUrl THEN <<vanity_repo>> ELSE << >>, env.net)
    IN IF v.rec # << >> THEN From(v, "lookup") ELSE CachedOrNone(v.st, c.cached)

\* lines 3210-3236
ResolveShort(c, dyn, manual, path, version, env) ==
    LET result == GoInfoWithOverrides(c.st, dyn, manual, path, version, fetch_go_metadata(path, version, env),
                                      NoUrl, NoSubdir, env.net)
    IN IF result.rec # << >> THEN From(result, "lookup")
       ELSE ShortVanity(result.st, c, path, version, env)

\* lines 3251-3269: the first override, else the repository derived from the path
DeriveWithOverrides(cache, override_urls, parts, env) ==
    IF override_urls # << >>
    THEN [vcs_url |-> override_urls[1], vanity_repo |-> NoUrl, subdir |-> DefaultSubdir(parts)]
    ELSE DeriveRepo(cache, parts, env)

\* lines 3299-3304 and 3307-3312: the module is recorded as failed
FailedWith(st, cached, path, version, reason) ==
    IF cached # << >> /\ cached[1].vcs_hash # NoHash
    THEN From([rec |-> cached,
               st |-> _record_skipped_module([st EXCEPT !.fpaths = @ \cup {path}], path, version, reason)], "cache")
    ELSE From([rec |-> << >>,
               st |-> _record_skipped_module([st EXCEPT !.fpaths = @ \cup {path}], path, version, reason)], "none")

\* lines 3292-3326: l is what _lookup_commit_for_version returned for the derived URL
DefaultLookup(st, l, c, d, dyn, manual, path, version, env) ==
    LET result == GoInfoWithOverrides(WithLs(st, l), dyn, manual, path, version,
                                      fetch_go_metadata(path, version, env), d.vcs_url, d.subdir, env.net)
    IN IF l.commit = NoHash
       THEN IF result.rec # << >> THEN From(result, "lookup")
            ELSE FailedWith(result.st, c.cached, path, version, "no repository metadata from go.sum/go list")
       ELSE IF ~_url_allowed_for_module(dyn, manual, path, d.vcs_url, version)
       THEN FailedWith(WithLs(st, l), c.cached, path, version, "resolved repo not allowed by override policy")
       ELSE From([rec |-> <<Record(path, version, d.vcs_url, l.commit, NoRef, d.subdir,
                                   ResolvedTimestamp(l, version))>>,
                  st |-> update_metadata_cache(WithLs(st, l), path, version, d.vcs_url, l.commit,
                                               ResolvedTimestamp(l, version), d.subdir, NoRef)], "lookup")

\* lines 3237-3326: st is the state after the vanity query, if one was made
ResolveDefault(st, c, d, dyn, manual, path, version, env) ==
    IF c.cached # << >> /\ c.cached[1].vcs_url # NoUrl /\ c.cached[1].vcs_hash # NoHash
    THEN From(ReturnCached(st, path, version, c.cached[1], d.vanity_repo), "cache")
    ELSE DefaultLookup(st, _lookup_commit_for_version(st.ls, st.lsd, d.vcs_url, version, NoRef, env.net),
                       c, d, dyn, manual, path, version, env)

\* c is the cached entry after its checks
ResolveBranches(c, dyn, manual, path, version, env) ==
    IF path[1] = "gopkg.in" THEN ResolveGopkg(c, dyn, manual, path, version, env)
    ELSE IF Len(path) < 3 THEN ResolveShort(c, dyn, manual, path, version, env)
    ELSE ResolveDefault(IF OverridesOf(dyn, manual, path, version) = << >> THEN CacheVanity(c.st, path, env)
                        ELSE c.st,
                        c, DeriveWithOverrides(c.st.vanity, OverridesOf(dyn, manual, path, version), path, env),
                        dyn, manual, path, version, env)

\* resolve_module_metadata(module_path, version) with MODULE_REPO_OVERRIDES = dyn
\* and MANUAL_OVERRIDES = manual: the record (<< >> for None), the caches
\* after the call and the return statement the record came from
ResolveModuleMetadata(st, dyn, manual, path, version, env) ==
    ResolveBranches(CachedCheckOverrides(st, dyn, manual, path, version, env.net),
                    dyn, manual, path, version, env)

\* the modules asked for: a github.com path, a gopkg.in path, a path of two
\* components; a tag and a pseudo-version
ResolvePaths == {Pab, Pgopkg, Pshort}

ResolveVersions == {V1, PsA}

\* repo-overrides.json: nothing, or one repository for every version of a module
ResolveTables ==
    {EmptyDict}
        \cup {[k \in {<<PathName(p), None>>} |-> U4] : p \in ResolvePaths}
        \cup {[k \in {<<PathName(Pab), None>>} |-> U1]}

\* module-cache.json as earlier runs, or an editor, left it
ResolveMetaFiles ==
    {EmptyDict,
     [k \in {<<Pab, V1>>} |-> MetaEntry(U1, CA, 1, NoSubdir, NoRef)],
     [k \in {<<Pab, V1>>} |-> MetaEntry(DotGit(U1), CA, 1, NoSubdir, TagRef("v1"))],
     [k \in {<<Pab, PsA>>} |-> MetaEntry(U1, CB, 1, NoSubdir, NoRef)],
     [k \in {<<Pab, PsA>>} |-> MetaEntry(U1, SA, 1, NoSubdir, NoRef)],
     [k \in {<<Pab, PsA>>, <<Pgopkg, PsA>>} |-> MetaEntry(U1, CA, 1, NoSubdir, NoRef)],
     [k \in {<<Pgopkg, V1>>, <<Pshort, V1>>} |-> MetaEntry(U4, CA, 1, NoSubdir, NoRef)],
     [k \in {<<Pshort, V1>>, <<Pshort, PsA>>} |-> MetaEntry(U2, IF k[2] = V1 THEN CB ELSE CA, 1, NoSubdir, NoRef)]}

InitResolve ==
    /\ pc = "resolve_load"
    /\ \E w \in {WNormal, WMoved} : IdleEngineWith(w, NoClones)
    /\ \E table \in ResolveTables : SessionStart(table)

\* _execute, lines 1668-1700: module-cache.json is read and pruned
ResolveLoad ==
    /\ pc = "resolve_load"
    /\ pc' = "resolve"
    /\ \E file \in ResolveMetaFiles :
         /\ metadata_file' = file
         /\ MODULE_METADATA_CACHE' = prune_metadata_cache(file, MODULE_REPO_OVERRIDES, MANUAL_OVERRIDES)
         /\ MODULE_METADATA_CACHE_DIRTY' = (prune_metadata_cache(file, MODULE_REPO_OVERRIDES, MANUAL_OVERRIDES) # file)
    /\ UNCHANGED <<modules, cfgVars, lsVars, verVars, regVars, lockVars, verify_dirs, verify_cache_file, ovrVars,
                   vanVars, ls_remote_file, repo_overrides_file, vanity_file, args, discovered, run, reliable,
                   probe, first_out, cache_writes, interrupted, vcs_repos, poolVars, outVars, fb_trace, execVars>>

\* the calls the go.sum loop makes in one run
MaxCalls == 1

\* one call resolve_module_metadata(path, version) of the go.sum loop
ResolveCall ==
    /\ pc = "resolve"
    /\ src_i <= MaxCalls
    /\ src_i' = src_i + 1
    /\ \E path \in ResolvePaths, version \in ResolveVersions, env \in Envs :
         LET r == ResolveModuleMetadata(DriverState, MODULE_REPO_OVERRIDES, MANUAL_OVERRIDES, path, version, env)
         IN /\ MODULE_METADATA_CACHE' = r.st.meta
            /\ MODULE_METADATA_CACHE_DIRTY' = r.st.metad
            /\ LS_REMOTE_CACHE' = r.st.ls
            /\ LS_REMOTE_CACHE_DIRTY' = r.st.lsd
            /\ VANITY_URL_CACHE' = r.st.vanity
            /\ VANITY_URL_CACHE_DIRTY' = r.st.vanityd
            /\ FAILED_MODULE_PATHS' = r.st.fpaths
            /\ SKIPPED_MODULES' = r.st.skipped
            /\ probe' = [op |-> "resolve_module_metadata", path |-> path, version |-> version, env |-> env,
                          before |-> DriverState, rec |-> r.rec, from |-> r.from]
    /\ UNCHANGED <<pc, modules, cfgVars, clones, verVars, regVars, lockVars, verify_dirs, verify_cache_file,
                   ovrVars, fileVars, args, discovered, run, reliable, first_out, cache_writes, interrupted,
                   vcs_repos, poolVars, outVars, fb_trace, sumVars, ind_i, FAILED_MODULE_ENTRIES,
                   vcs_ref_local, exit_code>>

NextResolve ==
    \/ ResolveLoad
    \/ ResolveCall

\* calls of resolve_module_metadata in one run, after the caches are loaded
SpecResolve == InitResolve /\ [][NextResolve]_vars

\* ----------------------------------------------------------------------
\* resolve_pseudo_version_commit on its own, with the clone cache and the
\* mirror of go.googlesource.com
\* ----------------------------------------------------------------------
UGoogle == "https://go.googlesource.com/tools"

UGoogleSlash == "https://go.googlesource.com/tools/"

UMirror == "https://github.com/golang/tools"

\* get_github_mirror_url: 'go.googlesource.com' in vcs_url, and the last
\* component of vcs_url.rstrip('/')
get_github_mirror_url(vcs_url) ==
    IF vcs_url \in {UGoogle, UGoogleSlash} THEN UMirror ELSE None

\* lines 2623-2626
urls_to_try(vcs_url) ==
    IF get_github_mirror_url(vcs_url) # None THEN <<vcs_url, get_github_mirror_url(vcs_url)>> ELSE <<vcs_url>>

\* the server a URL names
ServerOf(url) == IF url = UGoogleSlash THEN UGoogle ELSE url

\* lines 2643-2669: git fetch --all in the clone of an earlier call, whose
\* failure is ignored, or git clone --bare, whose failure ends the attempt
CloneOrUpdate(cl, try_url, out) ==
    IF try_url \in DOMAIN cl
    THEN [ok |-> TRUE,
          clones |-> IF out = "ok" THEN [cl EXCEPT ![try_url] = upstream[ServerOf(try_url)]] ELSE cl]
    ELSE IF out = "ok"
    THEN [ok |-> TRUE, clones |-> [u \in DOMAIN cl \cup {try_url} |->
                                      IF u = try_url THEN upstream[ServerOf(try_url)] ELSE cl[u]]]
    ELSE [ok |-> FALSE, clones |-> cl]

\* lines 2632-2711: the loop over urls_to_try; tried lists the URLs in the
\* order their clone directories were used
RECURSIVE TryUrls(_, _, _, _, _, _)
TryUrls(urls, cl, outs, ts, short_commit, tried) ==
    IF urls = << >> THEN [commit |-> NoHash, clones |-> cl, tried |-> tried]
    ELSE LET c == CloneOrUpdate(cl, Head(urls), outs[Len(tried) + 1])
             found == IF c.ok THEN ResolveInClone(c.clones[Head(urls)], ts, short_commit) ELSE NoHash
         IN IF found # NoHash
            THEN [commit |-> found, clones |-> c.clones, tried |-> Append(tried, Head(urls))]
            ELSE TryUrls(Tail(urls), c.clones, outs, ts, short_commit, Append(tried, Head(urls)))

\* resolve_pseudo_version_commit(vcs_url, timestamp_str, short_commit,
\* clone_cache_dir=CLONE_CACHE_DIR)
ResolvePseudoVersionCommit(cl, vcs_url, ts, short_commit, outs) ==
    IF ts < Epoch THEN [commit |-> NoHash, clones |-> cl, tried |-> << >>]
    ELSE TryUrls(urls_to_try(vcs_url), cl, outs, ts, short_commit, << >>)

PseudoUrls == {UGoogle, UGoogleSlash, UMirror}

PseudoServers == {[u \in {UGoogle, UMirror} |-> IF u = UGoogle THEN g ELSE m] :
                     g \in {WNormal, WMoved, WEmpty}, m \in {WNormal, WMoved}}

\* CLONE_CACHE_DIR as earlier calls left it
PseudoClones == {NoClones} \cup {[u \in {url} |-> WNormal] : url \in {UGoogle, UMirror}}

InitPseudo ==
    /\ pc = "pseudo"
    /\ \E servers \in PseudoServers, cl \in PseudoClones : IdleEngineOver(servers, cl)
    /\ FreshSession

\* one call of resolve_pseudo_version_commit
PseudoCall ==
    /\ pc = "pseudo"
    /\ src_i <= MaxCalls
    /\ src_i' = src_i + 1
    /\ \E vcs_url \in PseudoUrls, ts \in {Epoch - 1, 1, 2}, short_commit \in {SA, Prefix(CB, ShortHashLen)},
          outs \in [1..2 -> {"ok", "fail"}] :
         LET r == ResolvePseudoVersionCommit(clones, vcs_url, ts, short_commit, outs)
         IN /\ clones' = r.clones
            /\ probe' = [op |-> "resolve_pseudo_version_commit", url |-> vcs_url, ts |-> ts,
                          short_commit |-> short_commit, tried |-> r.tried, commit |-> r.commit]
    /\ UNCHANGED <<pc, modules, cfgVars, LS_REMOTE_CACHE, LS_REMOTE_CACHE_DIRTY, metaVars, verVars, regVars,
                   lockVars, verify_dirs, verify_cache_file, ovrVars, vanVars, fileVars, args, discovered, run,
                   reliable, first_out, cache_writes, interrupted, vcs_repos, poolVars, outVars, fb_trace, sumVars,
                   ind_i, FAILED_MODULE_PATHS, FAILED_MODULE_ENTRIES, SKIPPED_MODULES, vcs_ref_local, exit_code>>

\* calls of resolve_pseudo_version_commit over one clone cache
SpecPseudo == InitPseudo /\ [][PseudoCall]_vars

NextRuns ==
    \/ Startup
    \/ NextGen
    \/ Rerun

\* the engine run twice on the same discovery file and data directory
SpecRuns == InitRuns /\ [][NextRuns]_vars

\* two runs over a verification cache whose entry ages
SpecAging == InitAging /\ [][NextRuns]_vars

\* two runs over a verification cache in the legacy format
SpecLegacy == InitLegacy /\ [][NextRuns]_vars

NextSched ==
    \/ Startup
    \/ NextGen
    \/ Replay

\* a run with a full pool, then the same run made sequentially from the same
\* start, on a network without failures
SpecSched == InitSched /\ [][NextSched]_vars

\* ----------------------------------------------------------------------
\* Claims
\* ----------------------------------------------------------------------
\* the run has written both include files
Emitted == files_written

\* C1: every record handed to file emission has a vcs_hash of exactly 40
\* lowercase hex characters; a 12-character hash of the discovery JSON that
\* could not be expanded never reaches the output files.
C1_EmittedHashesAreFull ==
    (pc = "emit" \/ Emitted) =>
        /\ \A i \in 1..Len(modules) : IsFullHash(modules[i].vcs_hash)
        /\ \A e \in src_uri_entries : IsFullHash(e.rev)

\* C2: after the two resolution loops any two records of the module list
\* with the same (module_path, version) agree on every field.
C2_OneRecordPerKey ==
    pc \notin {"load", "source"} =>
        \A i, j \in 1..Len(modules) : KeyOf(modules[i]) = KeyOf(modules[j]) => modules[i] = modules[j]

\* C3: with verification enabled, every emitted repository entry whose
\* modules have an empty vcs_ref carries branch=<name>, where <name> is the
\* branch recorded for (vcs_url, vcs_hash) and that branch contains the commit.
C3_BranchForEmptyRef ==
    (Emitted /\ ~skip_verify) =>
        \A e \in src_uri_entries :
            e.refs = {NoRef} =>
                /\ <<e.url, e.rev>> \in DOMAIN VERIFY_DETECTED_BRANCHES
                /\ e.branch = VERIFY_DETECTED_BRANCHES[<<e.url, e.rev>>]
                /\ e.branch \in DOMAIN upstream[e.url].branches
                /\ \E c \in SeqToSet(upstream[e.url].branches[e.branch]) : StartsWith(c, e.rev)

\* C4: with verification enabled, every emitted record with a non-empty
\* vcs_ref has a ref that resolves upstream (peeled) to its vcs_hash when
\* the run ends, for tag refs and branch refs alike.
C4_RefResolvesToHash ==
    (Emitted /\ ~skip_verify) =>
        \A i \in 1..Len(modules) :
            modules[i].vcs_ref # NoRef =>
                Resolves(upstream[modules[i].vcs_url], modules[i].vcs_ref) = modules[i].vcs_hash

IsPseudo(version) == version.short # NoHash

\* C5: every record of a pseudo-version v*-<ts>-<short> has a vcs_hash that
\* starts with <short>, unless the verifier's fallback map records the
\* substitution of the original commit by that hash.
C5_PseudoHashHasShortPrefix ==
    \A i \in 1..Len(modules) :
        IsPseudo(modules[i].version) =>
            \/ StartsWith(modules[i].vcs_hash, modules[i].version.short)
            \/ \E key \in DOMAIN VERIFY_FALLBACK_COMMITS :
                    /\ key[1] = modules[i].vcs_url
                    /\ StartsWith(key[2], modules[i].version.short)
                    /\ VERIFY_FALLBACK_COMMITS[key] = modules[i].vcs_hash

\* C6: in every record of the module list no component of subdir is a
\* major-version suffix (v2, v3, ...).
C6_SubdirHasNoMajorSuffix ==
    \A i \in 1..Len(modules) :
        \A k \in 1..Len(modules[i].subdir) : ~IsMajorSuffix(modules[i].subdir[k])

\* C7: the run exits with 0 only if every (module, version) of the
\* source-required set has a record in the final module list or was
\* dropped as the root of a monorepo.
C7_SuccessMeansAllResolved ==
    exit_code = 0 =>
        \A n \in 1..Len(go_sum_modules_with_source) :
            \/ go_sum_modules_with_source[n] \in DiscoveredKeys(modules)
            \/ IsMonorepoRoot(modules, go_sum_modules_with_source[n][1])

\* C8: once verification has ended with a module whose commit stayed
\* unverifiable after the correction attempt, generate_recipe has returned
\* failure and neither include file is written.
C8_UnverifiableFailsRun ==
    (pc \in {"done", "exit"} /\ \E i \in DOMAIN results : results[i].kind = "failed") =>
        /\ gen_result = "false"
        /\ ~files_written

\* C9: when the verifier, after a failed fetch of the commit, fetches the
\* tag again and records the correction commit -> current tag target in the
\* fallback map, the call returns a true result without raising.
C9_TagMovedReturnsSuccess ==
    [][\A t \in 1..MaxJobs :
          (workers[t].pc = "v_tag_refetch" /\ VERIFY_FALLBACK_COMMITS' # VERIFY_FALLBACK_COMMITS)
              => workers'[t].ret = "true"]_vars

\* the verification of the substituted pair has returned True
FallbackVerified(tr) ==
    /\ <<tr.url, tr.original>> \in DOMAIN VERIFY_RESULTS
    /\ VERIFY_RESULTS[<<tr.url, tr.original>>]

\* the substitution is registered and, once the verification has returned
\* True, the branch is recorded for the fallback commit
FallbackRegistered(tr) ==
    /\ <<tr.url, tr.original>> \in DOMAIN VERIFY_FALLBACK_COMMITS
    /\ VERIFY_FALLBACK_COMMITS[<<tr.url, tr.original>>] = tr.fallback
    /\ FallbackVerified(tr) =>
          /\ <<tr.url, tr.fallback>> \in DOMAIN VERIFY_DETECTED_BRANCHES
          /\ VERIFY_DETECTED_BRANCHES[<<tr.url, tr.fallback>>] = tr.branch

\* C10 as stated: with a known timestamp the fallback commit lies on the
\* default branch of the upstream repository and is not later than the
\* timestamp, and the substitution and the branch are registered.
C10_FallbackNotLaterThanTimestamp ==
    \A tr \in fb_trace :
        tr.target_date # NoTs =>
            /\ tr.branch = upstream[tr.url].head
            /\ tr.fallback \in SeqToSet(upstream[tr.url].branches[tr.branch])
            /\ Date(tr.fallback) <= tr.target_date
            /\ FallbackRegistered(tr)

\* C10 amended: with a known timestamp the fallback commit comes from the
\* verifier's copy of the branch it takes as default (the branch of the
\* remote HEAD, or main when that query fails); it is the newest commit of
\* that branch not later than the timestamp when there is one and the tip of
\* the branch otherwise; the substitution is registered and, once the
\* verification has succeeded, the branch is recorded for the fallback commit.
C10_FallbackNewestUntilOrTip ==
    \A tr \in fb_trace :
        tr.target_date # NoTs =>
            LET h == tr.history
                until == {k \in 1..Len(h) : Date(h[k]) <= tr.target_date}
            IN /\ tr.branch \in {upstream[tr.url].head, "main"}
               /\ h # << >>
               /\ IF until = {} THEN tr.fallback = h[Len(h)]
                  ELSE \E k \in until : h[k] = tr.fallback /\ \A j \in until : j <= k
               /\ FallbackRegistered(tr)

\* a verified substitution by a commit older than the tip of the branch
C10_Witness ==
    \E tr \in fb_trace :
        /\ tr.target_date # NoTs
        /\ Date(tr.fallback) <= tr.target_date
        /\ tr.fallback # tr.history[Len(tr.history)]
        /\ FallbackVerified(tr)
        /\ Emitted

\* C11: for every repository entry written to the git include file, the
\* identifier in destsuffix=vcs_cache/<id> is the per-commit hash of the url
\* and the rev of that same entry, also after a correction or a fallback.
C11_DestsuffixMatchesRev ==
    Emitted =>
        \A e \in src_uri_entries :
            e.destsuffix = commit_cache_key(repo_key_for_url(e.url), e.rev)

\* C13: every record the driver adds for a source-required key (m, v) has
\* module_path = m and version = v: after a replace directive redirected the
\* lookup, for a copy of a replacement module that is already present, and
\* for a record synthesised from a monorepo base.
C13_AddedRecordsKeepIdentity ==
    [][(pc = "source" /\ src_i' = src_i + 1) =>
          \A i \in (Len(modules) + 1)..Len(modules') :
              KeyOf(modules'[i]) = go_sum_modules_with_source[src_i]]_vars

\* records added under the original key by each of the three routes: a copy
\* of the replacement, a lookup of the replacement path, a monorepo synthesis
C13_Witness ==
    \E i \in 1..Len(modules) :
        /\ modules[i].version = V1
        /\ \/ modules[i].module_path = Petcd /\ modules[i].subdir # NoSubdir
           \/ modules[i].module_path = Pold /\ modules[i].vcs_url = U1

\* the four places an override of the queried module can be stored in, in the
\* order of the specification; a lookup without a version has no
\* version-specific place
OverrideSources ==
    LET m == Strip(override_query.module_path)
        v == IF Truthy(override_query.version) THEN Strip(override_query.version) ELSE None
        at(d, k) == IF k \in DOMAIN d THEN d[k] ELSE None
    IN <<IF v = None THEN None ELSE at(MODULE_REPO_OVERRIDES, <<m, v>>),
         at(MODULE_REPO_OVERRIDES, <<m, None>>),
         IF v = None THEN None ELSE at(MANUAL_OVERRIDES, <<m, v>>),
         at(MANUAL_OVERRIDES, <<m, None>>)>>

\* the override URLs that exist for the queried module: a non-empty URL is stored
ExistingOverrides == {OverrideSources[k] : k \in 1..4} \ {None, ""}

FirstSource(u) == Min({k \in 1..4 : OverrideSources[k] = u})

\* the tables are those the last lookup has seen
QueryCurrent ==
    /\ override_query # NoQuery
    /\ override_query.overrides =
          repo_override_candidates(MODULE_REPO_OVERRIDES, MANUAL_OVERRIDES,
                                   override_query.module_path, override_query.version)

\* C14: repo_override_candidates returns exactly the override URLs that exist
\* for the module, each once, ordered dynamic version-specific, dynamic
\* wildcard, manual version-specific, manual wildcard, and the empty list
\* exactly when none of the four exists.
C14_OverrideOrder ==
    QueryCurrent =>
        LET o == override_query.overrides
        IN /\ SeqToSet(o) = ExistingOverrides
           /\ \A i, j \in 1..Len(o) : i < j => FirstSource(o[i]) < FirstSource(o[j])
           /\ (o = << >>) <=> (ExistingOverrides = {})

\* a lookup that found a dynamic and a manual override, one of them twice
C14_Witness ==
    /\ QueryCurrent
    /\ Len(override_query.overrides) = 2
    /\ OverrideSources[4] = override_query.overrides[1]
    /\ OverrideSources[2] = override_query.overrides[1]
    /\ OverrideSources[3] = override_query.overrides[2]

\* the hash module i entered verification with: the first pass kept it in commit_sha
EntryHash(i) == modules[i].commit_sha[2]

\* the corrections summary names the module of record i with its old and new hash
ListedCorrection(i) ==
    \E j \in DOMAIN results :
        /\ results[j].kind = "corrected"
        /\ KeyOf(modules[j]) = KeyOf(modules[i])
        /\ results[j].old = EntryHash(i)
        /\ results[j].new = modules[i].vcs_hash

C16_CorrectionsListed ==
    (pc = "exit" /\ Emitted) =>
        \A i \in 1..Len(modules) : modules[i].vcs_hash # EntryHash(i) => ListedCorrection(i)

C16_SkippedListed ==
    (pc = "exit" /\ Emitted) =>
        \A n \in 1..Len(go_sum_modules_with_source) :
            go_sum_modules_with_source[n] \notin DiscoveredKeys(modules)
                => go_sum_modules_with_source[n] \in DOMAIN SKIPPED_MODULES

\* C16: when the run has written its output, every module whose emitted hash
\* differs from the hash it entered verification with is in the corrections
\* summary with both hashes, and every source-required module absent from the
\* output is in the skipped-modules summary.
C16_RecoveriesAreListed == C16_CorrectionsListed /\ C16_SkippedListed

\* the cache holds a verified entry for the pair
VerifiedIn(cache, k) == k \in DOMAIN cache /\ cache[k].verified

\* C18: once --clear-commit REPO COMMIT has been processed, the verification
\* cache holds no verified entry for the pair, the first verification of the
\* pair does not start from a cached success, and unless the run verifies the
\* pair again the cache file at exit has no verified entry for it.
C18_ClearCommitRemovesEntry ==
    \A k \in args.clear_commit \ args.inject_commit :
        /\ pc = "load" => ~VerifiedIn(VERIFY_COMMIT_CACHE_V2, k)
        /\ \A t \in 1..MaxJobs :
              (workers[t].pc = "v_lock" /\ Key(t) = k /\ k \notin DOMAIN VERIFY_RESULTS) => ~workers[t].cvp
        /\ (pc = "exit" /\ ~DictGet(VERIFY_RESULTS, k, FALSE)) => ~VerifiedIn(verify_cache_file, k)

\* the second run wrote what the first run wrote
SameOutput ==
    /\ files_written
    /\ src_uri_entries = first_out.src_uri_entries
    /\ modules_data = first_out.modules_data

\* C12: when the first run has written both include files and the engine runs
\* again on the same input, from the caches the first run saved and with the
\* repositories unchanged, the second run writes the same two files, ends with
\* every dirty flag unset and rewrites no cache file.
C12_SecondRunChangesNothing ==
    (pc = "exit" /\ run = 2 /\ first_out.files_written /\ args = NoArgs) =>
        /\ SameOutput
        /\ ~LS_REMOTE_CACHE_DIRTY
        /\ ~MODULE_METADATA_CACHE_DIRTY
        /\ ~VANITY_URL_CACHE_DIRTY
        /\ ~VERIFY_COMMIT_CACHE_DIRTY
        /\ ~MODULE_REPO_OVERRIDES_DIRTY
        /\ cache_writes = {}

\* the process has ended after a Ctrl-C
EndedByInterrupt == pc = "exit" /\ interrupted

\* the files of the four caches whose flag stays set hold the caches
FlaggedCachesOnDisk ==
    /\ LS_REMOTE_CACHE_DIRTY => ls_remote_file = LS_REMOTE_CACHE
    /\ MODULE_METADATA_CACHE_DIRTY => metadata_file = MODULE_METADATA_CACHE
    /\ VANITY_URL_CACHE_DIRTY => vanity_file = VANITY_URL_CACHE
    /\ MODULE_REPO_OVERRIDES_DIRTY => repo_overrides_file = MODULE_REPO_OVERRIDES

\* the step that ends the process writes the verification cache if its
\* flag is set, and the flag is clear afterwards; once the process has
\* ended the flagged caches are on disk and no worker is left running
FlushedAtExit ==
    /\ (pc # "exit" /\ pc' = "exit") =>
          /\ VERIFY_COMMIT_CACHE_DIRTY => verify_cache_file' = VERIFY_COMMIT_CACHE_V2'
          /\ ~VERIFY_COMMIT_CACHE_DIRTY'
    /\ pc' = "exit" => FlaggedCachesOnDisk' /\ AllIdle'

BackFromRepoDir(t) == workers[t].pc = "v_lock"

\* C20: whenever _verify_repo_dir(url) has returned in a thread, under any
\* interleaving with other threads asking about the same URL for the first
\* time, the mutex registry contains the mutex of url, so the lookup of
\* line 755 cannot fail; and at most one mutex is ever created per URL.
C20_MutexRegisteredOnReturn ==
    /\ \A t \in 1..MaxJobs : BackFromRepoDir(t) => Url(t) \in VERIFY_REPO_LOCKS
    /\ \A u \in Urls : mutexes_created[u] <= 1

\* the steps of verify_commit_accessible and _find_fallback_commit whose
\* next command is a git command in the bare repository of the URL
RepoSteps == {"v_fetch_ref", "v_fetch_commit", "v_tag_refetch", "v_full_fetch", "v_exists",
              "v_fallback", "v_fallback_fetch", "v_verify_actual"}

InRepo(t) == workers[t].pc \in RepoSteps

\* every thread at a git command holds the mutex of its URL
GitUnderMutex == \A t \in 1..MaxJobs : InRepo(t) => lock_owner[Url(t)] = t

\* a URL whose directory this step initialises and enters in
\* VERIFY_REPO_CACHE was used by no thread and its mutex was not held
InitBeforeVisible ==
    \A u \in VERIFY_REPO_CACHE' \ VERIFY_REPO_CACHE :
        /\ lock_owner[u] = 0
        /\ \A t \in 1..MaxJobs : InRepo(t) => Url(t) # u

\* C19: no two threads ever run git commands in the bare repository of one
\* URL at the same time: every fetch of verify_commit_accessible and of
\* _find_fallback_commit runs with the mutex of the URL held, the show-ref
\* of the first pass runs while no worker thread exists, and the init or
\* remote set-url of _verify_repo_dir runs before any other thread can see
\* the repository.
C19_RepoCommandsSerialised ==
    [][/\ GitUnderMutex'
       /\ pc' = "first_pass" => AllIdle'
       /\ InitBeforeVisible]_vars

\* two threads inside verify_commit_accessible for the same URL, one at a
\* fetch with the mutex, the other waiting for it
C19_Witness ==
    \E t, u \in 1..MaxJobs :
        /\ t # u
        /\ workers[t].pc = "v_full_fetch"
        /\ workers[u].pc = "v_lock"
        /\ Url(t) = Url(u)
        /\ lock_owner[Url(t)] = t

\* thread t is inside verify_commit_accessible
InCall(t) == workers[t].pc \notin {"idle", "vm_post"}

\* a thread outside verify_commit_accessible holds neither a mutex nor the
\* registry lock
NoLockAfterReturn ==
    \A t \in 1..MaxJobs :
        ~InCall(t) => /\ \A u \in Urls : lock_owner[u] # t
                      /\ VERIFY_REPO_LOCKS_LOCK # t

VerificationOver == pc = "emit" /\ ~skip_verify

\* hashes a correction or a fallback replaced and that are no module's hash now
Superseded(k) ==
    {results[i].old : i \in {j \in DOMAIN results : results[j].kind = "corrected"
                                                       /\ modules[j].repo_key = k}}
        \ {modules[i].vcs_hash : i \in {j \in 1..Len(modules) : modules[j].repo_key = k}}

CommitKeysFinal ==
    /\ \A i \in 1..Len(modules) : HasCommitInfo(modules[i])
    /\ \A k \in DOMAIN vcs_repos : Superseded(k) \cap DOMAIN vcs_repos[k].commits = {}

\* C21: after the verification phase every module's repository structure
\* has a commit entry keyed by the module's final vcs_hash and none keyed
\* by a superseded hash, for every interleaving of the workers, also when
\* modules share one (url, commit) pair.
C21_CommitKeysFollowHashes == VerificationOver => CommitKeysFinal

\* the maps the worker threads share
SharedMaps ==
    <<LS_REMOTE_CACHE, VERIFY_COMMIT_CACHE, VERIFY_COMMIT_CACHE_V2, VERIFY_RESULTS,
      VERIFY_FALLBACK_COMMITS, VERIFY_DETECTED_BRANCHES, vcs_repos>>

\* this step is one of thread t working on a module
WorkerStep(t) == workers[t].idx # 0 /\ workers'[t] # workers[t]

\* thread t holds the mutex of its URL when the step begins or when it ends
HoldsMutex(t) == lock_owner[Url(t)] = t \/ lock_owner'[Url(t)] = t

\* C22: while the pool is running, every write of a worker to a shared map
\* (ls-remote cache, verification caches and results, fallback map,
\* detected-branch map, per-repo commit structure) is made while the
\* worker holds the mutex of the URL the entry belongs to.
C22_SharedWritesUnderMutex ==
    [][\A t \in 1..MaxJobs :
          (verify_jobs > 0 /\ WorkerStep(t) /\ SharedMaps' # SharedMaps) => HoldsMutex(t)]_vars

\* the last call of git_ls_remote found nothing in the in-memory cache
LsRemoteMiss == probe.op = "git_ls_remote" /\ probe.miss

\* C23: after git_ls_remote(url, ref) returns from a cache miss, the cache
\* maps (url, ref) to the value returned (the commit, or null when nothing
\* was found or the command failed or timed out) and the dirty flag is
\* set; an ls-remote that succeeds with no matching line leaves a null.
C23_MissIsCached ==
    LsRemoteMiss =>
        /\ <<probe.url, probe.ref>> \in DOMAIN LS_REMOTE_CACHE
        /\ LS_REMOTE_CACHE[<<probe.url, probe.ref>>] = probe.res
        /\ LS_REMOTE_CACHE_DIRTY

\* the hashes of annotated-tag objects, upstream and in the local clones
TagObjects ==
    LET objs(w) == {w.tags[t].obj : t \in {x \in DOMAIN w.tags : w.tags[x].obj # w.tags[x].peeled}}
    IN objs(upstream[U1]) \cup UNION {objs(clones[u]) : u \in DOMAIN clones}

\* C24: for a ref beginning refs/tags/ that names an annotated tag,
\* git_ls_remote returns and caches the peeled commit hash and never the
\* hash of the tag object, whether the local bare clone (show-ref) or the
\* network ls-remote answers.
C24_AnnotatedTagPeeled ==
    (probe.op = "git_ls_remote" /\ IsTagRef(probe.ref)) =>
        /\ probe.res \notin TagObjects
        /\ <<probe.url, probe.ref>> \in DOMAIN LS_REMOTE_CACHE
              => LS_REMOTE_CACHE[<<probe.url, probe.ref>>] \notin TagObjects

\* the last call of git_ls_remote asked the remote and the command timed out
TimedOutCall == probe.op = "git_ls_remote" /\ probe.queried /\ probe.out = "timeout"

\* C25: a null cached for (url, ref) because ls-remote timed out serves
\* the rest of the current run, but is not carried into the next run: a
\* run started from the cache file the first run saved does not find the
\* pair in its cache and queries the remote again.
C25_TimeoutNullNotCarried ==
    [][(TimedOutCall /\ run = 1) =>
          /\ LS_REMOTE_CACHE[<<probe.url, probe.ref>>] = NoHash
          /\ run' = 2 => <<probe.url, probe.ref>> \notin DOMAIN LS_REMOTE_CACHE']_vars

\* resolve_module_metadata has returned the record it found in the metadata cache
CacheReturn == probe.op = "resolve_module_metadata" /\ probe.from = "cache"

\* the entry the cache held for the module when the call was made
CachedEntry == probe.before.meta[<<probe.path, probe.version>>]

FortyHex(h) == Len(h) = FullHashLen /\ \A i \in 1..Len(h) : h[i] \in (HexLower \cup HexUpper)

\* what the ref resolver gives for the cached URL, version and ref when the call is made
CachedRefCommit ==
    _lookup_commit_for_version(probe.before.ls, probe.before.lsd, CachedEntry.vcs_url, probe.version,
                               CachedEntry.ref, probe.env.net).commit

Trusted ==
    /\ FortyHex(CachedEntry.commit)
    /\ parse_pseudo_version_tag(probe.version) # << >>
           => StartsWith(CachedEntry.commit, parse_pseudo_version_tag(probe.version)[2])
    /\ _url_allowed_for_module(MODULE_REPO_OVERRIDES, MANUAL_OVERRIDES, probe.path, CachedEntry.vcs_url,
                               probe.version)
    /\ parse_pseudo_version_tag(probe.version) = << >>
           => CachedRefCommit # NoHash /\ Lower(CachedRefCommit) = Lower(CachedEntry.commit)

\* C26: a record that resolve_module_metadata returns from the metadata cache,
\* on the gopkg.in branch, the short-path branch or the default branch, comes
\* from an entry whose commit is 40 hex characters, starts with the short
\* prefix of a pseudo-version, has a URL the overrides allow and, for a
\* tagged version, is the commit the ref resolver gives for the cached ref
C26_CachedReturnIsTrusted ==
    CacheReturn => <<probe.path, probe.version>> \in DOMAIN probe.before.meta /\ Trusted

\* the cache answered on the gopkg.in branch, after every candidate and go list had failed
C26_Witness == CacheReturn /\ probe.path = Pgopkg /\ Trusted

\* resolve_module_metadata has returned a record for a module that has an override
ResolvedUnderOverride ==
    /\ probe.op = "resolve_module_metadata"
    /\ probe.rec # << >>
    /\ OverridesOf(MODULE_REPO_OVERRIDES, MANUAL_OVERRIDES, probe.path, probe.version) # << >>

\* C27: for a module with at least one repository override, the vcs_url of
\* every record resolve_module_metadata returns is, after normalisation, one
\* of the override URLs, on the gopkg.in and short-path branches too
C27_ReturnedUrlAmongOverrides ==
    ResolvedUnderOverride =>
        _normalize_url(probe.rec[1].vcs_url) \in
            {_normalize_url(o) : o \in SeqToSet(OverridesOf(MODULE_REPO_OVERRIDES, MANUAL_OVERRIDES, probe.path,
                                                            probe.version))}

\* the entry verify-cache.json holds for k is a success that has aged
AgedOnDisk(k) ==
    /\ k \in DOMAIN verify_cache_file
    /\ verify_cache_file[k].verified
    /\ \/ VERIFY_CACHE_MAX_AGE_DAYS = 0
       \/ /\ verify_cache_file[k].last_checked # NoTs
          /\ now - verify_cache_file[k].last_checked >= VERIFY_CACHE_MAX_AGE_DAYS

\* verify_commit_accessible has returned True for k in this run
VerifiedNow(k) == k \in DOMAIN VERIFY_RESULTS /\ VERIFY_RESULTS[k]

\* the entry of k was written again: checked now, first verified when the file says
Rechecked(k) ==
    /\ k \in DOMAIN VERIFY_COMMIT_CACHE_V2
    /\ VERIFY_COMMIT_CACHE_V2[k].last_checked = now
    /\ VERIFY_COMMIT_CACHE_V2[k].first_verified = verify_cache_file[k].first_verified

\* a call for k that is past the cache checks does not count k as a hit
NotAHit(k) ==
    \A t \in 1..MaxJobs :
        (workers[t].pc \notin {"idle", "v_start"} /\ workers[t].idx # 0 /\ Key(t) = k
            /\ workers[t].ret = "none") => ~workers[t].cvp

FreshOnDisk(k) ==
    /\ k \in DOMAIN verify_cache_file
    /\ verify_cache_file[k].verified
    /\ verify_cache_file[k].last_checked # NoTs
    /\ now - verify_cache_file[k].last_checked < VERIFY_CACHE_MAX_AGE_DAYS

\* thread t is inside verify_commit_accessible for a pair the cache holds fresh
FreshCall(t) == workers[t].idx # 0 /\ InCall(t) /\ FreshOnDisk(Key(t))

\* C29: a call of verify_commit_accessible for a pair whose v2 entry is a
\* success checked within the max-age window leaves the verifier's
\* repository as it was (nothing is fetched), returns True, and has recorded
\* a branch for the commit when ref_hint is empty
C29_FreshHitReturnsWithoutTest ==
    [][\A t \in 1..MaxJobs :
          (FreshCall(t) /\ WorkerStep(t)) =>
              /\ verify_dirs' = verify_dirs
              /\ workers'[t].ret # "none" =>
                    /\ workers'[t].ret = "true"
                    /\ RefHint(t) = NoRef => Key(t) \in DOMAIN VERIFY_DETECTED_BRANCHES']_vars

\* this step ends verify_module for a module whose index is a multiple of the period
PeriodReached ==
    \E t \in 1..MaxJobs :
        /\ workers[t].pc = "vm_post"
        /\ workers[t].ret # "raised"
        /\ workers[t].idx % SavePeriod = 0
        /\ workers'[t].pc = "idle"

\* C30: during verification, sequential or with any number of workers, the
\* verification cache file holds the verification cache once every 50th
\* module has been verified
C30_SavedEveryPeriod ==
    [][(pc = "verify" /\ PeriodReached) => verify_cache_file' = VERIFY_COMMIT_CACHE_V2']_vars

\* ----------------------------------------------------------------------
\* C31: after load_verify_commit_cache has read a legacy file, every entry
\* that was true is in VERIFY_COMMIT_CACHE_V2 with verified = true and
\* fetch_method "cached", the cache is marked dirty, and the file the run
\* leaves at its exit is in the v2 format, whether or not a commit was
\* verified in the run.
\* ----------------------------------------------------------------------
LegacyOnDisk == LegacyFormat(verify_cache_file)

MigratedAfterLoad ==
    \A k \in DOMAIN verify_cache_file :
        verify_cache_file[k].bool =>
            /\ k \in DOMAIN VERIFY_COMMIT_CACHE_V2'
            /\ VERIFY_COMMIT_CACHE_V2'[k].verified
            /\ VERIFY_COMMIT_CACHE_V2'[k].fetch_method = "cached"

C31_LegacyMigratedAndRewritten ==
    [][/\ (LegacyOnDisk /\ pc = "start") => (MigratedAfterLoad /\ VERIFY_COMMIT_CACHE_DIRTY')
       /\ (LegacyOnDisk /\ pc' = "exit") => ~LegacyFormat(verify_cache_file')]_vars

\* ----------------------------------------------------------------------
\* C32: an iteration of the source loop ends at the monorepo-root line
\* (1966-1968) only for a module whose path is a proper path-prefix of the
\* module path of a record of the module list.
\* ----------------------------------------------------------------------
DroppedAsRoot == probe.op = "source" /\ probe.out = "monorepo root"

ProperPrefixOfResolved(path) ==
    \E p \in PathsSeen(modules) : Len(p) > Len(path) /\ StartsWith(p, path)

C32_RootDropOnlyForPrefix == DroppedAsRoot => ProperPrefixOfResolved(probe.path)

\* ----------------------------------------------------------------------
\* C33: for a repository URL on go.googlesource.com,
\* resolve_pseudo_version_commit uses the clone of the GitHub mirror before
\* it uses the clone of the primary URL.
\* ----------------------------------------------------------------------
Position(seq, x) == IF x \in SeqToSet(seq) THEN Min({i \in 1..Len(seq) : seq[i] = x}) ELSE 0

PseudoCallOnGoogle ==
    /\ probe.op = "resolve_pseudo_version_commit"
    /\ get_github_mirror_url(probe.url) # None
    /\ probe.tried # << >>

C33_MirrorBeforePrimary ==
    PseudoCallOnGoogle =>
        /\ Position(probe.tried, UMirror) > 0
        /\ Position(probe.tried, probe.url) > 0 => Position(probe.tried, UMirror) < Position(probe.tried, probe.url)

\* ----------------------------------------------------------------------
\* C34: a (module, version) with only a /go.mod line in go.sum is never
\* passed to resolve_module_metadata; it gets a record only when a record of
\* the same module path is already in the module list, and the new record
\* has that sibling's vcs_url and subdir; a key with both lines is in the
\* source-required list and not in the module-file-only list.
\* ----------------------------------------------------------------------
GoModOnly(key) == SumLine(key, TRUE) \in go_sum /\ SumLine(key, FALSE) \notin go_sum

BothLines(key) == SumLine(key, TRUE) \in go_sum /\ SumLine(key, FALSE) \in go_sum

\* lines 1801-1807: the key resolve_module_metadata is called with
LookedUp(module_path, version) ==
    IF module_path \in DOMAIN go_mod_replaces /\ go_mod_replaces[module_path][2] # NoVersion
    THEN go_mod_replaces[module_path]
    ELSE <<module_path, version>>

\* the iteration of the source loop reached line 1824
ResolverCalled == probe.op = "source" /\ probe.out \notin {"previous failure", "discovered"}

GoModOnlyNotLookedUp == ResolverCalled => ~GoModOnly(LookedUp(probe.path, probe.version))

NewRecordsOf(key) == {i \in 1..Len(modules') : KeyOf(modules'[i]) = key} \ (1..Len(modules))

GoModOnlyFromSibling ==
    \A key \in SeqToSet(KeyOrder) :
        (GoModOnly(key) /\ NewRecordsOf(key) # {}) =>
            /\ key[1] \in PathsSeen(modules)
            /\ \A i \in NewRecordsOf(key) :
                 \E j \in 1..Len(modules) :
                    /\ modules[j].module_path = key[1]
                    /\ modules'[i].vcs_url = modules[j].vcs_url
                    /\ modules'[i].subdir = modules[j].subdir

BothLinesSourceOnly ==
    \A key \in SeqToSet(KeyOrder) :
        BothLines(key) => /\ key \in SeqToSet(go_sum_modules_with_source)
                          /\ key \notin SeqToSet(go_sum_indirect_only)

C34_GoModOnlyBySiblingOnly ==
    [][GoModOnlyNotLookedUp' /\ GoModOnlyFromSibling /\ BothLinesSourceOnly']_vars

\* ----------------------------------------------------------------------
\* C35: when resolve_module_metadata fails for a source-required module,
\* replaced or not, and a proper prefix of the looked-up path is the module
\* path of a record of the module list, and the tag of the looked-up version
\* resolves in that record's repository, the iteration adds a record for the
\* module with the vcs_url of the record of the longest such prefix and the
\* remaining path components as subdir.
\* ----------------------------------------------------------------------
\* resolve_module_metadata returned None: the iteration ended in the else
\* branch of line 1837
ResolverFailed(out) == out \in {"monorepo submodule", "sibling", "monorepo root", "failed", "indirect-only"}

BaseLengths(path) == {n \in 1..(Len(path) - 1) : SubSeq(path, 1, n) \in PathsSeen(modules)}

Max(S) == CHOOSE x \in S : \A y \in S : y <= x

LongestBase(path) == SubSeq(path, 1, Max(BaseLengths(path)))

\* git_ls_remote(url, refs/tags/<tag>) or git_ls_remote(url, <tag>) gives a
\* commit: the server has the tag, the command succeeds, and the cache holds
\* no other answer
TagResolvesAt(url, version, net) ==
    /\ net = "ok"
    /\ TagOf(version) \in DOMAIN WorldAt(url).tags
    /\ LsRemoteTag(DriverState, url, TagOf(version), net).commit # NoHash

SynthesisDue(key, env) ==
    /\ BaseLengths(LookedUp(key[1], key[2])[1]) # {}
    /\ TagResolvesAt(FirstByPath(modules, LongestBase(LookedUp(key[1], key[2])[1])).vcs_url,
                     LookedUp(key[1], key[2])[2], env.net)

SynthesisedFrom(key, i) ==
    LET looked_up == LookedUp(key[1], key[2])[1]
    IN /\ KeyOf(modules'[i]) = key
       /\ modules'[i].vcs_url = FirstByPath(modules, LongestBase(looked_up)).vcs_url
       /\ modules'[i].subdir = SubSeq(looked_up, Len(LongestBase(looked_up)) + 1, Len(looked_up))

C35_SubmoduleSynthesised ==
    [][(/\ pc = "source"
        /\ src_i' = src_i + 1
        /\ ResolverFailed(probe'.out)
        /\ SynthesisDue(go_sum_modules_with_source[src_i], probe'.env))
           => \E i \in (Len(modules) + 1)..Len(modules') : SynthesisedFrom(go_sum_modules_with_source[src_i], i)]_vars

\* ----------------------------------------------------------------------
\* C36: every module line of the cache include file carries as vcs_hash the
\* destsuffix identifier of exactly one entry of the git include file, and
\* that entry's url and rev are the module's vcs_url and its final vcs_hash,
\* whatever corrections and fallbacks verification applied.
\* ----------------------------------------------------------------------
EntriesFor(line) == {e \in src_uri_entries : e.destsuffix = line.vcs_hash}

C36_ModuleLineHasOneEntry ==
    Emitted =>
        \A i \in 1..Len(modules_data) :
            /\ Cardinality(EntriesFor(modules_data[i])) = 1
            /\ \A e \in EntriesFor(modules_data[i]) :
                    e.url = modules[i].vcs_url /\ e.rev = modules[i].vcs_hash

\* two modules that started on different commits end on the same one, and the
\* files were written
C36_Witness ==
    /\ Emitted
    /\ \E i, j \in 1..Len(modules) :
          /\ i # j
          /\ modules[i].vcs_hash = modules[j].vcs_hash
          /\ modules[i].vcs_url = modules[j].vcs_url
          /\ IsFullHash(discovered[i].vcs_hash)
          /\ IsFullHash(discovered[j].vcs_hash)
          /\ discovered[i].vcs_hash # discovered[j].vcs_hash

\* ----------------------------------------------------------------------
\* C37: within one run the body of verify_commit_accessible (the work done
\* while the mutex of the URL is held) ends at most once for each
\* (url, commit) pair, whatever the number of threads.
\* ----------------------------------------------------------------------
C37_BodyRunsOncePerPair == \A key \in DOMAIN body_runs : body_runs[key] <= 1

\* ----------------------------------------------------------------------
\* C38: whenever verify_commit_accessible returns failure for a pair, the
\* v2 verification cache holds no entry with verified = true for that pair.
\* ----------------------------------------------------------------------
VerifiedInV2(cache, key) == key \in DOMAIN cache /\ cache[key].verified

ReturnsFailure(t) ==
    /\ workers[t].pc \notin {"idle", "vm_post"}
    /\ workers'[t].pc = "vm_post"
    /\ workers'[t].ret = "false"

C38_FailureLeavesNoVerifiedEntry ==
    [][\A t \in 1..MaxJobs : ReturnsFailure(t) => ~VerifiedInV2(VERIFY_COMMIT_CACHE_V2', Key(t))]_vars

\* ----------------------------------------------------------------------
\* C39: for a fixed module list and upstream state the two include files a
\* run with a thread pool writes are those the sequential run writes, whatever
\* the scheduling of the threads.
\* ----------------------------------------------------------------------
C39_PoolEqualsSequential ==
    (pc = "exit" /\ run = 2) =>
        /\ (files_written /\ exit_code = 0) = first_out.files_written
        /\ first_out.files_written =>
              /\ src_uri_entries = first_out.src_uri_entries
              /\ modules_data = first_out.modules_data

\* ----------------------------------------------------------------------
\* C40: in the loop over the modules that have only a /go.mod line, the
\* vcs_ref of a record depends on that module's own resolution alone: a
\* module resolved as a pseudo-version gets an empty vcs_ref, and it is
\* resolved whenever its commit can be found.
\* ----------------------------------------------------------------------
IndirectKey == go_sum_indirect_only[ind_i]

PseudoVersionDue ==
    /\ pc = "source"
    /\ ind_i' = ind_i + 1
    /\ parse_pseudo_version_tag(IndirectKey[2]) # << >>
    /\ IndirectKey \notin DiscoveredKeys(modules)
    /\ IndirectKey[1] \in PathsSeen(modules)

\* the clone the iteration made finds the commit of the pseudo-version
CommitFound ==
    resolve_pseudo_version_commit(WorldAt(FirstByPath(modules, IndirectKey[1]).vcs_url),
                                  parse_pseudo_version_tag(IndirectKey[2])[1],
                                  parse_pseudo_version_tag(IndirectKey[2])[2], probe'.net) # NoHash

C40_PseudoVersionRefIsOwn ==
    [][PseudoVersionDue =>
          /\ \A i \in (Len(modules) + 1)..Len(modules') : modules'[i].vcs_ref = NoRef
          /\ CommitFound => Len(modules') = Len(modules) + 1]_vars

====
